---------------------------- MODULE Spec2Model ----------------------------
(***************************************************************************)
(* A model of the markdownlang interpreter: the expression evaluator with  *)
(* its type-coercion rules, the runtime (call stack, output, break flag,   *)
(* input buffer) and the statement interpreter with its tail-call          *)
(* trampoline.                                                             *)
(*                                                                         *)
(* Runtime values are records tagged by their JavaScript type:             *)
(*   [t |-> "number", n, d]   the number n/d in lowest terms, d > 0;       *)
(*                            d = 0 encodes NaN (n = 0), Infinity (n = 1)  *)
(*                            and -Infinity (n = -1)                       *)
(*   [t |-> "string", s]      s a sequence of one-character strings        *)
(*   [t |-> "boolean", b]                                                  *)
(*   [t |-> "undefined"], [t |-> "null"]                                   *)
(* The number domain has no negative zero.                                 *)
(***************************************************************************)
EXTENDS Integers, Sequences, FiniteSets, TLC

VARIABLES
    scenario,     \* history: the name of the interpret call under study
    program,      \* the entry Program handed to interpret
    call,         \* its other arguments (entryPoint, args, baseDir, inputs or
                  \* inputReader and printHandler) and its mode, "sync" for
                  \* interpret and "async" for interpretAsync
    externalProgramCache, \* the module-level cache of loaded external Programs
    callStack,    \* Runtime.callStack
    output,       \* Runtime.output
    breakFlag,    \* Runtime.breakFlag
    inputBuffer,  \* Runtime.inputBuffer
    inputIndex,   \* Runtime.inputIndex
    native,       \* the interpreter's own (JavaScript) activation stack
    result,       \* the TailCallResult | null passed between activations
    status,       \* "idle", "running", "returned" or "threw"
    error,        \* the Error thrown, when status = "threw"
    invCount,     \* history: number of function invocations (frames pushed) so far
    log,          \* history: the statements executed, in order
    printed,      \* the values the printHandler has been called with
    reads,        \* history: the calls of the inputReader, in order
    loads,        \* history: the documents read or fetched and the resets of
                  \* the cache, in order
    runs,         \* history: how many interpretations the session has begun
    previous,     \* history: how the call before this one ended
    parked,       \* a second interpretation, waiting at a suspension point
                  \* while this one runs, or none
    evalNode,     \* the expression under evaluation (evaluator specification)
    evalFrame,    \* the frame it is evaluated against
    evalOutcome,  \* its outcome once evaluated
    functions,    \* program.functions of the Program the transformer builds
    currentFunction, \* the name of the function under construction, or none
    blockStack,   \* the open blocks, the function body first
    mdastNode,    \* the node of the document tree handled last
    position,     \* how many nodes of the tree have been handled
    lineBuffer,   \* the command line's lines received and not yet read
    lineResolve,  \* the resolve function of its pending read, or null
    rlClosed,     \* whether its readline interface has closed
    received,     \* history: how many lines standard input has delivered
    answers       \* history: what the inputReader calls resolved with, in order

vars == <<scenario, program, call, externalProgramCache, callStack, output,
          breakFlag, inputBuffer, inputIndex, native, result, status, error,
          invCount, log, printed, reads, loads, runs, previous, parked,
          evalNode, evalFrame, evalOutcome,
          functions, currentFunction, blockStack, mdastNode, position,
          lineBuffer, lineResolve, rlClosed, received, answers>>

interpVars == <<scenario, program, call, externalProgramCache, callStack, output,
                breakFlag, inputBuffer, inputIndex, native, result, status, error,
                invCount, log, printed, reads, loads, runs, previous, parked>>

hostVars == <<printed, reads, loads, runs>>

sessionVars == <<previous, parked>>

evalVars == <<evalNode, evalFrame, evalOutcome>>

transformVars == <<functions, currentFunction, blockStack, mdastNode, position>>

readerVars == <<lineBuffer, lineResolve, rlClosed, received, answers>>

(***************************************************************************)
(* Bounds of the model.                                                    *)
(***************************************************************************)
MaxFracDigits == 6
MaxLoop == 4
MaxRuns == 2
MaxLines == 3
MaxReads == 4

(***************************************************************************)
(* Runtime values.                                                         *)
(***************************************************************************)
Num(n, d) == [t |-> "number", n |-> n, d |-> d]
Str(s) == [t |-> "string", s |-> s]
Bool(b) == [t |-> "boolean", b |-> b]
Undefined == [t |-> "undefined"]
Null == [t |-> "null"]
NaN == Num(0, 0)

Abs(x) == IF x < 0 THEN -x ELSE x

RECURSIVE GCD(_, _)
GCD(a, b) == IF b = 0 THEN a ELSE GCD(b, a % b)

Norm(n, d) ==
    LET g == GCD(Abs(n), Abs(d))
        sg == IF d < 0 THEN -1 ELSE 1
    IN Num((sg * n) \div g, (sg * d) \div g)

Integer(n) == Num(n, 1)

IsNaN(x) == x.d = 0 /\ x.n = 0
IsInf(x) == x.d = 0 /\ x.n # 0
Sign(x) == IF x.n < 0 THEN -1 ELSE IF x.n > 0 THEN 1 ELSE 0

typeof(v) == IF v.t = "null" THEN "object" ELSE v.t

(***************************************************************************)
(* IEEE arithmetic on the number domain.                                   *)
(***************************************************************************)
NumAdd(a, b) ==
    IF IsNaN(a) \/ IsNaN(b) THEN NaN
    ELSE IF IsInf(a) THEN (IF IsInf(b) /\ a.n # b.n THEN NaN ELSE a)
    ELSE IF IsInf(b) THEN b
    ELSE Norm(a.n * b.d + b.n * a.d, a.d * b.d)

NumNeg(a) == Num(-a.n, a.d)

NumSub(a, b) == NumAdd(a, NumNeg(b))

NumMul(a, b) ==
    IF IsNaN(a) \/ IsNaN(b) THEN NaN
    ELSE IF IsInf(a) \/ IsInf(b)
         THEN (IF Sign(a) * Sign(b) = 0 THEN NaN ELSE Num(Sign(a) * Sign(b), 0))
    ELSE Norm(a.n * b.n, a.d * b.d)

NumDiv(a, b) ==
    IF IsNaN(a) \/ IsNaN(b) THEN NaN
    ELSE IF IsInf(a)
         THEN (IF IsInf(b) THEN NaN ELSE Num(IF Sign(b) < 0 THEN -a.n ELSE a.n, 0))
    ELSE IF IsInf(b) THEN Integer(0)
    ELSE IF b.n = 0 THEN (IF a.n = 0 THEN NaN ELSE Num(Sign(a), 0))
    ELSE Norm(a.n * b.d, a.d * b.n)

\* a plausible slip: the quotient where the remainder is meant
NumRemAsQuotient(a, b) == NumDiv(a, b)

NumRem(a, b) ==
    IF IsNaN(a) \/ IsNaN(b) \/ IsInf(a) \/ (b.d # 0 /\ b.n = 0) THEN NaN
    ELSE IF IsInf(b) THEN a
    ELSE LET p == a.n * b.d
             q == Abs(b.n * a.d)
             r == Abs(p) % q
         IN Norm(IF p < 0 THEN -r ELSE r, a.d * b.d)

NumLt(a, b) ==
    IF IsNaN(a) \/ IsNaN(b) THEN FALSE
    ELSE IF IsInf(a) THEN a.n < 0 /\ ~(IsInf(b) /\ b.n < 0)
    ELSE IF IsInf(b) THEN b.n > 0
    ELSE a.n * b.d < b.n * a.d

NumEq(a, b) == ~IsNaN(a) /\ ~IsNaN(b) /\ a = b

NumLe(a, b) == NumLt(a, b) \/ NumEq(a, b)

(***************************************************************************)
(* Number(string): JavaScript's StringToNumber on decimal literals.  The   *)
(* strings of the model are written with digits, sign, point, space and    *)
(* letters; hexadecimal, binary, octal and exponent forms are not in this  *)
(* alphabet's numerals and are not modelled.                               *)
(***************************************************************************)
Digits == <<"0", "1", "2", "3", "4", "5", "6", "7", "8", "9">>

IsDigit(c) == \E i \in 1..Len(Digits) : Digits[i] = c

DigitVal(c) == (CHOOSE i \in 1..Len(Digits) : Digits[i] = c) - 1

AllDigits(s) == \A i \in 1..Len(s) : IsDigit(s[i])

RECURSIVE DigitsVal(_)
DigitsVal(s) ==
    IF s = <<>> THEN 0
    ELSE 10 * DigitsVal(SubSeq(s, 1, Len(s) - 1)) + DigitVal(s[Len(s)])

RECURSIVE Pow10(_)
Pow10(k) == IF k = 0 THEN 1 ELSE 10 * Pow10(k - 1)

RECURSIVE TrimLeft(_)
TrimLeft(s) == IF s # <<>> /\ Head(s) = " " THEN TrimLeft(Tail(s)) ELSE s

RECURSIVE TrimRight(_)
TrimRight(s) ==
    IF s # <<>> /\ s[Len(s)] = " " THEN TrimRight(SubSeq(s, 1, Len(s) - 1)) ELSE s

Trim(s) == TrimRight(TrimLeft(s))

InfinityText == <<"I", "n", "f", "i", "n", "i", "t", "y">>

\* how many points a literal has, and where its first one is
Points(u) == Cardinality({i \in 1..Len(u) : u[i] = "."})
PointAt(u) == CHOOSE i \in 1..Len(u) : u[i] = "."

\* the value of the digits ip before and fp after the point
DecimalParts(ip, fp) ==
    IF AllDigits(ip) /\ AllDigits(fp) /\ Len(ip) + Len(fp) > 0
    THEN Norm(DigitsVal(ip) * Pow10(Len(fp)) + DigitsVal(fp), Pow10(Len(fp)))
    ELSE NaN

\* an unsigned literal: Infinity, digits, or digits around one point
Unsigned(u) ==
    IF u = InfinityText THEN Num(1, 0)
    ELSE IF Points(u) = 0
    THEN (IF u # <<>> /\ AllDigits(u) THEN Integer(DigitsVal(u)) ELSE NaN)
    ELSE IF Points(u) = 1
    THEN DecimalParts(SubSeq(u, 1, PointAt(u) - 1), SubSeq(u, PointAt(u) + 1, Len(u)))
    ELSE NaN

\* a trimmed literal: the empty string is 0, one sign may lead
Signed(t) ==
    IF t = <<>> THEN Integer(0)
    ELSE IF Head(t) = "-" THEN NumNeg(Unsigned(Tail(t)))
    ELSE IF Head(t) = "+" THEN Unsigned(Tail(t))
    ELSE Unsigned(t)

StringToNumber(s) == Signed(Trim(s))

(***************************************************************************)
(* String(value): JavaScript string conversion.  A fraction is rendered at  *)
(* most MaxFracDigits digits deep after the point.                         *)
(***************************************************************************)
RECURSIVE NatToString(_)
NatToString(n) ==
    IF n < 10 THEN <<Digits[n + 1]>>
    ELSE NatToString(n \div 10) \o <<Digits[(n % 10) + 1]>>

RECURSIVE FracToString(_, _, _)
FracToString(r, d, fuel) ==
    IF r = 0 \/ fuel = 0 THEN <<>>
    ELSE <<Digits[((r * 10) \div d) + 1]>> \o FracToString((r * 10) % d, d, fuel - 1)

NumberToString(x) ==
    IF IsNaN(x) THEN <<"N", "a", "N">>
    ELSE IF IsInf(x) THEN (IF x.n < 0 THEN <<"-">> ELSE <<>>) \o InfinityText
    ELSE (IF x.n < 0 THEN <<"-">> ELSE <<>>)
         \o NatToString(Abs(x.n) \div x.d)
         \o (IF x.d = 1 THEN <<>>
             ELSE <<".">> \o FracToString(Abs(x.n) % x.d, x.d, MaxFracDigits))

String(v) ==
    CASE v.t = "number" -> NumberToString(v)
      [] v.t = "string" -> v.s
      [] v.t = "boolean" -> IF v.b THEN <<"t", "r", "u", "e">>
                                   ELSE <<"f", "a", "l", "s", "e">>
      [] v.t = "undefined" -> <<"u", "n", "d", "e", "f", "i", "n", "e", "d">>
      [] v.t = "null" -> <<"n", "u", "l", "l">>

ToNumber(v) ==
    CASE v.t = "number" -> v
      [] v.t = "string" -> StringToNumber(v.s)
      [] v.t = "boolean" -> Integer(IF v.b THEN 1 ELSE 0)
      [] v.t = "undefined" -> NaN
      [] v.t = "null" -> Integer(0)

ToBoolean(v) ==
    CASE v.t = "number" -> ~IsNaN(v) /\ v.n # 0
      [] v.t = "string" -> v.s # <<>>
      [] v.t = "boolean" -> v.b
      [] v.t = "undefined" -> FALSE
      [] v.t = "null" -> FALSE

Nullish(v) == v.t = "undefined" \/ v.t = "null"

\* left == right
LooseEquals(a, b) ==
    IF Nullish(a) \/ Nullish(b) THEN Nullish(a) /\ Nullish(b)
    ELSE IF a.t = "string" /\ b.t = "string" THEN a.s = b.s
    ELSE NumEq(ToNumber(a), ToNumber(b))

\* left === right
StrictEquals(a, b) ==
    /\ a.t = b.t
    /\ CASE a.t = "number" -> NumEq(a, b)
         [] a.t = "string" -> a.s = b.s
         [] a.t = "boolean" -> a.b = b.b
         [] OTHER -> TRUE

(***************************************************************************)
(* Errors.  A message is modelled by the parts it is built from.           *)
(***************************************************************************)
Ok(v) == [ok |-> TRUE, val |-> v]
Throw(e) == [ok |-> FALSE, err |-> e]

NoError == [name |-> "none"]

Error(message) == [name |-> "Error", message |-> message]

\* a plausible slip: the line is not handed on to the error
RuntimeTypeErrorUntagged(context, value, line) ==
    [name |-> "RuntimeTypeError",
     message |-> "Expected number for " \o context,
     got |-> typeof(value),
     value |-> value,
     line |-> 0]

\* the field line stands for the "Line N: " the message begins with; a line
\* of 0 is no line
RuntimeTypeError(context, value, line) ==
    [name |-> "RuntimeTypeError",
     message |-> "Expected number for " \o context,
     got |-> typeof(value),
     value |-> value,
     line |-> line]

\* a plausible slip: the error does not say which variable it is about
UndeclaredVariableErrorUnnamed(variableName, line) ==
    [name |-> "UndeclaredVariableError",
     message |-> "Variable is not declared",
     variable |-> "",
     line |-> line]

UndeclaredVariableError(variableName, line) ==
    [name |-> "UndeclaredVariableError",
     message |-> "Variable '" \o variableName \o "' is not declared. Use '- "
                 \o variableName \o " = value' to declare it.",
     variable |-> variableName,
     line |-> line]

expectNumber(value, context, line) ==
    IF value.t = "string" /\ ~IsNaN(StringToNumber(value.s))
    THEN Ok(StringToNumber(value.s))
    ELSE IF value.t # "number"
         THEN Throw(RuntimeTypeError(context, value, line))
         ELSE Ok(value)

(***************************************************************************)
(* Expressions, as the expression parser returns them.                     *)
(***************************************************************************)
Literal(v) == [type |-> "Literal", value |-> v]
Identifier(name) == [type |-> "Identifier", name |-> name]
BinaryExpression(op, l, r) ==
    [type |-> "BinaryExpression", operator |-> op, left |-> l, right |-> r]
UnaryExpression(op, arg) ==
    [type |-> "UnaryExpression", operator |-> op, argument |-> arg]
TemplateLiteral(parts) == [type |-> "TemplateLiteral", parts |-> parts]
LiteralPart(s) == [type |-> "literal", value |-> s]
ExpressionPart(e) == [type |-> "expression", expr |-> e]

(***************************************************************************)
(* The runtime's variable lookup.  A runtime is a record whose callStack   *)
(* field is a sequence of frames, the current frame last.                  *)
(***************************************************************************)
currentFrame(runtime) == runtime.callStack[Len(runtime.callStack)]

\* a plausible slip: a name is looked up in the callers' frames as well
getVariableAnywhere(runtime, name) ==
    IF \E k \in DOMAIN runtime.callStack : name \in DOMAIN runtime.callStack[k].variables
    THEN runtime.callStack[CHOOSE k \in DOMAIN runtime.callStack :
                              /\ name \in DOMAIN runtime.callStack[k].variables
                              /\ \A j \in DOMAIN runtime.callStack :
                                    name \in DOMAIN runtime.callStack[j].variables
                                    => j <= k].variables[name]
    ELSE Undefined

getVariable(runtime, name) ==
    IF runtime.callStack # <<>> /\ name \in DOMAIN currentFrame(runtime).variables
    THEN currentFrame(runtime).variables[name]
    ELSE Undefined

(***************************************************************************)
(* The evaluator.  An evaluation yields Ok(value) or Throw(error).         *)
(***************************************************************************)
ArithmeticOperators == {"+", "-", "*", "/", "%"}
RelationalOperators == {"<", ">", "<=", ">="}

numberOperation(op, a, b) ==
    CASE op = "+" -> NumAdd(a, b)
      [] op = "-" -> NumSub(a, b)
      [] op = "*" -> NumMul(a, b)
      [] op = "/" -> NumDiv(a, b)
      [] op = "%" -> NumRem(a, b)
      [] op = "<" -> Bool(NumLt(a, b))
      [] op = ">" -> Bool(NumLt(b, a))
      [] op = "<=" -> Bool(NumLe(a, b))
      [] op = ">=" -> Bool(NumLe(b, a))

\* a op b on two expected numbers, or the error of the first that is none
numberResult(op, a, b) ==
    IF ~a.ok THEN a
    ELSE IF ~b.ok THEN b
    ELSE Ok(numberOperation(op, a.val, b.val))

\* expectNumber(left, "left operand of op", line) op
\* expectNumber(right, "right operand of op", line)
expectNumbers(op, left, right, line) ==
    numberResult(op, expectNumber(left, "left operand of " \o op, line),
                     expectNumber(right, "right operand of " \o op, line))

\* a plausible slip: numeral strings are coerced and added before the
\* string test of + is made
plusCoercingNumerals(left, right, line) ==
    IF expectNumber(left, "", line).ok /\ expectNumber(right, "", line).ok
    THEN expectNumbers("+", left, right, line)
    ELSE IF left.t = "string" \/ right.t = "string"
    THEN Ok(Str((IF Nullish(left) THEN <<>> ELSE String(left))
                \o (IF Nullish(right) THEN <<>> ELSE String(right))))
    ELSE expectNumbers("+", left, right, line)

\* case "+" of evaluateBinaryExpression: String(left ?? "") + String(right ?? "")
\* when either operand is a string, else the sum of the two expected numbers
plus(left, right, line) ==
    IF left.t = "string" \/ right.t = "string"
    THEN Ok(Str((IF Nullish(left) THEN <<>> ELSE String(left))
                \o (IF Nullish(right) THEN <<>> ELSE String(right))))
    ELSE expectNumbers("+", left, right, line)

\* the switch of evaluateBinaryExpression on the two evaluated operands
binaryOperator(op, left, right, line) ==
    CASE op = "+" -> plus(left, right, line)
      [] op \in {"-", "*", "/", "%"} -> expectNumbers(op, left, right, line)
      [] op = "==" -> Ok(Bool(LooseEquals(left, right)))
      [] op = "!=" -> Ok(Bool(~LooseEquals(left, right)))
      [] op \in RelationalOperators -> expectNumbers(op, left, right, line)
      [] op = "===" -> Ok(Bool(StrictEquals(left, right)))
      [] op = "!==" -> Ok(Bool(~StrictEquals(left, right)))
      [] op = "&&" -> Ok(IF ToBoolean(left) THEN right ELSE left)
      [] op = "||" -> Ok(IF ToBoolean(left) THEN left ELSE right)
      [] OTHER -> Throw(Error("Unknown operator: " \o op))

unaryOperator(op, argument, line) ==
    CASE op = "!" -> Ok(Bool(~ToBoolean(argument)))
      [] op = "-" ->
            LET a == expectNumber(argument, "operand of unary -", line)
            IN IF a.ok THEN Ok(NumNeg(a.val)) ELSE a
      [] op = "+" -> expectNumber(argument, "operand of unary +", line)
      [] OTHER -> Throw(Error("Unknown unary operator: " \o op))

RECURSIVE evaluate(_, _, _)
RECURSIVE evaluateBinaryExpression(_, _, _)
RECURSIVE evaluateUnaryExpression(_, _, _)
RECURSIVE evaluateTemplateParts(_, _, _, _)

evaluateBinaryExpression(node, runtime, line) ==
    LET left == evaluate(node.left, runtime, line)
    IN IF ~left.ok THEN left
       ELSE LET right == evaluate(node.right, runtime, line)
            IN IF ~right.ok THEN right
               ELSE binaryOperator(node.operator, left.val, right.val, line)

evaluateUnaryExpression(node, runtime, line) ==
    LET argument == evaluate(node.argument, runtime, line)
    IN IF ~argument.ok THEN argument
       ELSE unaryOperator(node.operator, argument.val, line)

\* the loop of evaluateTemplateLiteral over node.parts, result so far in acc
evaluateTemplateParts(parts, acc, runtime, line) ==
    IF parts = <<>> THEN Ok(Str(acc))
    ELSE IF Head(parts).type = "literal"
         THEN evaluateTemplateParts(Tail(parts), acc \o Head(parts).value, runtime, line)
         ELSE LET v == evaluate(Head(parts).expr, runtime, line)
              IN IF ~v.ok THEN v
                 ELSE evaluateTemplateParts(Tail(parts), acc \o String(v.val),
                                            runtime, line)

evaluateTemplateLiteral(node, runtime, line) ==
    evaluateTemplateParts(node.parts, <<>>, runtime, line)

evaluate(node, runtime, line) ==
    CASE node.type = "Literal" -> Ok(node.value)
      [] node.type = "Identifier" -> Ok(getVariable(runtime, node.name))
      [] node.type = "BinaryExpression" -> evaluateBinaryExpression(node, runtime, line)
      [] node.type = "UnaryExpression" -> evaluateUnaryExpression(node, runtime, line)
      [] node.type = "TemplateLiteral" -> evaluateTemplateLiteral(node, runtime, line)
      [] node.type = "CallExpression" -> Throw(Error("Call expressions not supported"))
      [] OTHER -> Throw(Error("Unknown expression type: " \o node.type))


(***************************************************************************)
(* Statements, functions and programs, as the transformer builds them.     *)
(* A null operator or externalFile is the string "null"; a path is a       *)
(* sequence of segments, an absolute one starting with the segment "/".    *)
(***************************************************************************)
PrintStatement(expression, line) ==
    [type |-> "PrintStatement", expression |-> expression, line |-> line]
AssignmentStatement(variable, operator, value, line) ==
    [type |-> "AssignmentStatement", variable |-> variable, operator |-> operator,
     value |-> value, line |-> line]
VariableDeclaration(variable, value, line) ==
    [type |-> "VariableDeclaration", variable |-> variable, value |-> value,
     line |-> line]
FunctionCallStatement(functionName, externalFile, arguments, line) ==
    [type |-> "FunctionCallStatement", functionName |-> functionName,
     externalFile |-> externalFile, arguments |-> arguments, line |-> line]
ConditionalBlock(condition, body, line) ==
    [type |-> "ConditionalBlock", condition |-> condition, body |-> body,
     line |-> line]
BreakStatement(line) == [type |-> "BreakStatement", line |-> line]
InputStatement(variable, line) ==
    [type |-> "InputStatement", variable |-> variable, line |-> line]

FunctionDeclaration(name, parameters, body) ==
    [type |-> "FunctionDeclaration", name |-> name, parameters |-> parameters,
     body |-> body]

NoPath == <<>>

\* a Program holding the given sequence of function declarations; a later
\* declaration of a name replaces an earlier one
Program(decls) ==
    [type |-> "Program",
     functions |-> [n \in {decls[i].name : i \in 1..Len(decls)} |->
                      decls[CHOOSE i \in 1..Len(decls) :
                              /\ decls[i].name = n
                              /\ \A j \in (i + 1)..Len(decls) : decls[j].name # n]],
     _baseDir |-> NoPath]

\* an unordered list item: "name = expr" declares with a value, a bare item
\* declares the variable as undefined
listItemDeclaration(item, line) ==
    IF item.declMatch
    THEN VariableDeclaration(item.varName, item.value, line)
    ELSE VariableDeclaration(item.itemText, Literal(Undefined), line)

(***************************************************************************)
(* The transformer, mdastToProgram.  A block of the function under         *)
(* construction is named by its path: <<>> is the function body, p \o <<k>> *)
(* the body of the conditional that is statement k of block p.  The block  *)
(* stack holds such paths, the function body first.                        *)
(***************************************************************************)
NoFunction == "null"

RECURSIVE blockAt(_, _)
\* the statements of the block a path names
blockAt(body, path) ==
    IF path = <<>> THEN body
    ELSE blockAt(body[Head(path)].body, Tail(path))

RECURSIVE pushStatement(_, _, _)
\* block.push(statement) on the block a path names
pushStatement(body, path, statement) ==
    IF path = <<>> THEN Append(body, statement)
    ELSE [body EXCEPT ![Head(path)].body = pushStatement(@, Tail(path), statement)]

\* a plausible slip: one scope is closed where all deeper ones should be
trimmedByOne(stack, depth) ==
    IF Len(stack) >= depth THEN SubSeq(stack, 1, Len(stack) - 1) ELSE stack

\* while (blockStack.length >= depth) blockStack.pop()
trimmed(stack, depth) ==
    IF Len(stack) >= depth THEN SubSeq(stack, 1, depth - 1) ELSE stack

\* a plausible slip: a heading opens its conditional in whatever scope is open
anyParentOpen(stack, depth) == Len(stack) >= 1

\* if (blockStack.length === depth - 1)
parentOpen(stack, depth) == Len(stack) = depth - 1

\* the earlier transformer: a thematic break returns to the function body
resetToFunctionBody(stack) == IF Len(stack) > 1 THEN <<stack[1]>> ELSE stack

\* if (blockStack.length > 1) blockStack.pop()
poppedOnce(stack) ==
    IF Len(stack) > 1 THEN SubSeq(stack, 1, Len(stack) - 1) ELSE stack

\* a plausible slip: an ordered list declares parameters in any open block
anyLevelOpen(stack) == Len(stack) >= 1

\* blockStack.length === 1
atFunctionLevel(stack) == Len(stack) = 1

\* link.url.startsWith("#")
startsWithHash(url) == Len(url) >= 1 /\ url[1] = "#"

\* link.url.includes("#")
includesHash(url) == \E at \in DOMAIN url : url[at] = "#"

\* link.url.indexOf("#"), counted from 0; the url includes a "#"
indexOfHash(url) ==
    (CHOOSE at \in DOMAIN url :
        url[at] = "#" /\ \A before \in 1..(at - 1) : url[before] # "#") - 1

\* link.url.slice(start, end) and link.url.slice(start), counted from 0
slice(url, start, end) == SubSeq(url, start + 1, end)
sliceFrom(url, start) == SubSeq(url, start + 1, Len(url))

\* the function name and the external file of a link target
linkTarget(url) ==
    IF startsWithHash(url)
    THEN [functionName |-> sliceFrom(url, 1), externalFile |-> Null]
    ELSE IF includesHash(url)
    THEN [functionName |-> sliceFrom(url, indexOfHash(url) + 1),
          externalFile |-> Str(slice(url, 0, indexOfHash(url)))]
    ELSE [functionName |-> url, externalFile |-> Null]

\* the statement of a paragraph: a sole strong child is a print, a sole link
\* child a call, other text that is not an assignment is no statement
parseParagraph(node) ==
    IF node.parsed = "PrintStatement"
    THEN PrintStatement(Literal(Str(<<"p">>)), node.line)
    ELSE IF node.parsed = "FunctionCallStatement"
    THEN FunctionCallStatement(linkTarget(node.url).functionName,
                               linkTarget(node.url).externalFile, <<>>, node.line)
    ELSE Null

\* a plausible slip: the first function of a name is kept
firstDeclared(declarations, name) ==
    IF name \in DOMAIN declarations
    THEN declarations
    ELSE [n \in DOMAIN declarations \cup {name} |->
             IF n = name THEN FunctionDeclaration(name, <<>>, <<>>) ELSE declarations[n]]

\* program.functions[funcName] = currentFunction, a function without
\* parameters and statements
declared(declarations, name) ==
    [n \in DOMAIN declarations \cup {name} |->
        IF n = name THEN FunctionDeclaration(name, <<>>, <<>>) ELSE declarations[n]]

(***************************************************************************)
(* The input reader of the command line: readline's line and close events  *)
(* fill lineBuffer or resolve the pending read.                            *)
(***************************************************************************)
NoResolve == "null"

\* the k-th line of standard input, of the text given, and the empty string
stdinLine(k, text) == <<k, text>>
EmptyString == <<>>

\* a plausible slip: the line taken from the buffer is the newest
pop(buffer) ==
    [value |-> buffer[Len(buffer)], rest |-> SubSeq(buffer, 1, Len(buffer) - 1)]

\* lineBuffer.shift()
shift(buffer) == [value |-> Head(buffer), rest |-> Tail(buffer)]

\* before the first event: nothing buffered, no read pending, not closed
ReaderIdle ==
    /\ lineBuffer = <<>>
    /\ lineResolve = NoResolve
    /\ rlClosed = FALSE
    /\ received = 0
    /\ answers = <<>>

\* before the walk: no function, an empty block stack
TransformerIdle ==
    /\ functions = [n \in {} |-> FunctionDeclaration(n, <<>>, <<>>)]
    /\ currentFunction = NoFunction
    /\ blockStack = <<>>
    /\ mdastNode = [type |-> "none"]
    /\ position = 0

(***************************************************************************)
(* path.resolve and path.dirname on segment sequences.                     *)
(***************************************************************************)
\* the text of a relative path
RECURSIVE pathText(_)
pathText(path) ==
    IF path = <<>> THEN ""
    ELSE IF Len(path) = 1 THEN Head(path)
    ELSE Head(path) \o "/" \o pathText(Tail(path))

IsAbsolute(path) == path # <<>> /\ Head(path) = "/"

RECURSIVE normalize(_, _)
normalize(done, rest) ==
    IF rest = <<>> THEN done
    ELSE IF Head(rest) = "." THEN normalize(done, Tail(rest))
    ELSE IF Head(rest) = ".."
         THEN normalize(IF Len(done) > 1 THEN SubSeq(done, 1, Len(done) - 1) ELSE done,
                        Tail(rest))
    ELSE normalize(Append(done, Head(rest)), Tail(rest))

resolve(baseDir, filePath) ==
    IF IsAbsolute(filePath) THEN normalize(<<"/">>, Tail(filePath))
    ELSE normalize(<<"/">>, Tail(baseDir) \o filePath)

dirname(path) == IF Len(path) > 1 THEN SubSeq(path, 1, Len(path) - 1) ELSE path

\* a URL is a path whose first segment is the scheme: https://example.com/lib.md
\* is <<"https:/", "example.com", "lib.md">>
\* a plausible slip: a URL is taken for a file's path
isNeverRemoteURL(path) == FALSE

isRemoteURL(path) == path # <<>> /\ Head(path) = "https:/"

\* the names that end in the document extension .md
MarkdownNames == {"lib.md", "main.md", "helpers.md", "missing.md", "util.md"}

isMarkdownURL(url) == url[Len(url)] \in MarkdownNames

\* a reference found in a document at baseURL: a URL stands for itself, a
\* relative reference is taken from the document's own place on its host
resolveURL(baseURL, filePath) ==
    IF isRemoteURL(filePath) THEN filePath
    ELSE <<baseURL[1], baseURL[2]>>
         \o normalize(<<>>, SubSeq(baseURL, 3, Len(baseURL)) \o filePath)

(***************************************************************************)
(* The Runtime's operations on its call stack, input buffer and output.    *)
(***************************************************************************)
\* the names a new frame holds as declared: the bound parameters
declaredOnEntry(args) == DOMAIN args

pushFrame(stack, functionName, args) ==
    Append(stack, [functionName |-> functionName,
                   variables |-> args,
                   declaredVariables |-> declaredOnEntry(args)])

popFrame(stack) == IF stack = <<>> THEN stack ELSE SubSeq(stack, 1, Len(stack) - 1)

\* a plausible slip: the value is written only when the name is new
setVariableKeepingOld(stack, name, value) ==
    IF stack = <<>> THEN stack
    ELSE LET frame == stack[Len(stack)]
         IN [stack EXCEPT ![Len(stack)].variables =
                [x \in DOMAIN frame.variables \cup {name} |->
                    IF x \in DOMAIN frame.variables THEN frame.variables[x] ELSE value]]

setVariable(stack, name, value) ==
    IF stack = <<>> THEN stack
    ELSE LET frame == stack[Len(stack)]
         IN [stack EXCEPT ![Len(stack)].variables =
                [x \in DOMAIN frame.variables \cup {name} |->
                    IF x = name THEN value ELSE frame.variables[x]]]

isDeclared(stack, name) ==
    stack # <<>> /\ name \in stack[Len(stack)].declaredVariables

declareVariable(stack, name, value) ==
    IF stack = <<>> THEN stack
    ELSE LET set == setVariable(stack, name, value)
         IN [set EXCEPT ![Len(stack)].declaredVariables = @ \cup {name}]

\* a plausible slip: the handler is never called
deliverNothing(sink, handler, value) == sink

\* print: if (this.printHandler) this.printHandler(value); sink is what the
\* handler has been given so far
deliver(sink, handler, value) == IF handler THEN Append(sink, value) ELSE sink

\* a plausible slip: the reader is never asked
ignoresInputReader(inputReader) == FALSE

\* readInputAsync: if (this.inputReader) return await this.inputReader()
usesInputReader(inputReader) == inputReader

\* a plausible slip: the read leaves the index where it was
readInputAgain(buffer, index) ==
    IF index < Len(buffer)
    THEN [value |-> buffer[index + 1], index |-> index]
    ELSE [value |-> Null, index |-> index]

\* readInput: the value read and the index after the read
readInput(buffer, index) ==
    IF index < Len(buffer)
    THEN [value |-> buffer[index + 1], index |-> index + 1]
    ELSE [value |-> Null, index |-> index]

\* a plausible slip: only the parameters that have an argument are bound
argBindingsSupplied(parameters, args) ==
    [p \in {parameters[i] : i \in 1..Len(parameters)} \cap
           {parameters[i] : i \in 1..Len(args)} |->
        args[CHOOSE j \in 1..Len(args) :
                /\ j <= Len(parameters)
                /\ parameters[j] = p
                /\ \A k \in (j + 1)..Len(parameters) : parameters[k] # p]]

\* the argument bindings executeFunction builds: parameter i gets args[i],
\* undefined when there is no such argument
argBindings(parameters, args) ==
    [p \in {parameters[i] : i \in 1..Len(parameters)} |->
        LET i == CHOOSE j \in 1..Len(parameters) :
                    /\ parameters[j] = p
                    /\ \A k \in (j + 1)..Len(parameters) : parameters[k] # p
        IN IF i <= Len(args) THEN args[i] ELSE Undefined]

\* a plausible slip: no default, the current value stays undefined
noDefaultValue(value) == Undefined

getDefaultValue(value) ==
    IF value.t = "string" THEN Str(<<>>)
    ELSE IF value.t = "number" THEN Integer(0)
    ELSE Undefined

\* the switch of executeAssignment on a compound operator
\* a plausible slip: += adds numbers only, like the other compound operators
compoundValueOfNumbers(operator, variable, currentValue, newValue, line) ==
    IF operator \notin {"+", "-", "*", "/"}
    THEN Throw(Error("Unknown compound operator: " \o operator))
    ELSE numberResult(operator,
                      expectNumber(currentValue, "variable '" \o variable \o "'", line),
                      expectNumber(newValue, "assignment value", line))

compoundValue(operator, variable, currentValue, newValue, line) ==
    IF operator = "+" /\ (currentValue.t = "string" \/ newValue.t = "string")
    THEN Ok(Str((IF Nullish(currentValue) THEN <<>> ELSE String(currentValue))
                \o (IF Nullish(newValue) THEN <<>> ELSE String(newValue))))
    ELSE IF operator \notin {"+", "-", "*", "/"}
    THEN Throw(Error("Unknown compound operator: " \o operator))
    ELSE numberResult(operator,
                      expectNumber(currentValue, "variable '" \o variable \o "'", line),
                      expectNumber(newValue, "assignment value", line))

\* runtime.getVariable(statement.variable) ?? getDefaultValue(newValue)
currentOrDefault(got, newValue) ==
    IF Nullish(got) THEN getDefaultValue(newValue) ELSE got

\* the value executeAssignment stores, or the error it throws
assignmentValue(statement, runtime) ==
    \* newValue is evaluated first, whatever the operator
    CHOOSE stored \in
      {IF ~newValue.ok \/ statement.operator = "null" THEN newValue
       ELSE compoundValue(statement.operator, statement.variable,
                          currentOrDefault(getVariable(runtime, statement.variable),
                                           newValue.val),
                          newValue.val, statement.line) :
         newValue \in {evaluate(statement.value, runtime, statement.line)}} : TRUE

\* statement.arguments.map(arg => evaluate(arg, runtime, statement.line)):
\* the values, or the first error
argumentValues(first, rest) ==
    IF ~first.ok THEN first
    ELSE IF ~rest.ok THEN rest
    ELSE [ok |-> TRUE, val |-> <<first.val>> \o rest.val]

RECURSIVE evaluateArguments(_, _, _)
evaluateArguments(arguments, runtime, line) ==
    IF arguments = <<>> THEN [ok |-> TRUE, val |-> <<>>]
    ELSE argumentValues(evaluate(Head(arguments), runtime, line),
                        evaluateArguments(Tail(arguments), runtime, line))

(***************************************************************************)
(* The decisions of the control flow, one operator each.                   *)
(***************************************************************************)
NoResult == [type |-> "null"]

\* a plausible slip: the loop does not look at the flag
loopNeverBreaks(flag) == FALSE

\* executeBlock: if (runtime.breakFlag) break
loopBreaks(flag) == flag

\* executeBlock: if (result && result.type === TAIL_CALL) return result
blockReturns(res) == res.type = "TAIL_CALL"

\* a plausible slip: the conditional runs its body and returns null
conditionalDropsResult(bodyResult) == NoResult

\* executeConditional: return executeBlock(program, statement.body, runtime)
conditionalResult(bodyResult) == bodyResult

\* a plausible slip: every call is run eagerly inside its caller
neverTailCall(isLast) == FALSE

\* executeFunctionCall: if (isLast) return the thunk for the trampoline
isTailCall(isLast) == isLast

\* a plausible slip: the frame is left on the stack when the function returns
popFrameForgotten(stack) == stack

\* executeFunction: runtime.popFrame() after the body
framesAfterReturn(stack) == popFrame(stack)

\* a plausible slip: a block has a scope of its own, gone when the block ends
scopeClosed(stack) ==
    IF stack = <<>> THEN stack
    ELSE [stack EXCEPT ![Len(stack)].variables = [v \in {} |-> Undefined]]

\* executeBlock and executeConditional push no frame and pop none: the frame
\* is the invocation's, before and after a block
framesAfterBlock(stack) == stack

\* a plausible slip: the break statement leaves the flag alone
setBreakForgotten(flag) == flag

\* Runtime.setBreak
setBreak(flag) == TRUE

\* an assignment to a name the current frame has not declared is refused
undeclaredAssignment(stack, statement) == ~isDeclared(stack, statement.variable)

(***************************************************************************)
(* The interpreter as a machine.  native is the stack of the interpreter's *)
(* own activations, the running one last:                                  *)
(*   interpret            the trampoline loop of interpret                 *)
(*   executeFunction      between pushFrame and popFrame                   *)
(*   executeBlock         the loop over statements; i statements are done, *)
(*                        pc = "await" while statement i + 1 is running    *)
(*   executeFunctionCall  the trampoline loop of an eager call             *)
(* result is the TailCallResult | null an activation hands to the next.    *)
(* A Program object is referred to by a key: EntryKey for the Program      *)
(* handed to interpret, its full path for a loaded external Program.       *)
(***************************************************************************)
TailCallResult(programKey, func, args) ==
    [type |-> "TAIL_CALL", program |-> programKey, func |-> func, args |-> args]

EntryKey == <<>>

programOf(key) == IF key = EntryKey THEN program ELSE externalProgramCache[key]

\* a plausible slip: a call without a reference is looked up in the entry
\* document
entryProgram(current) == EntryKey

\* executeFunctionCall: let targetProgram = program, for a call without a
\* reference the Program whose statement is executing
targetProgram(current) == current

Top == native[Len(native)]

Running == status = "running" /\ native # <<>>

\* the loop of executeBlock is about to run its next statement
AtStatement ==
    /\ Running
    /\ Top.fn = "executeBlock"
    /\ Top.pc = "loop"
    /\ ~loopBreaks(breakFlag)
    /\ Top.i < Len(Top.statements)

Current == Top.statements[Top.i + 1]

CurrentIsLast == Top.i = Len(Top.statements) - 1

At(type) == AtStatement /\ Current.type = type

runtime == [callStack |-> callStack]

\* where in native the function activation now running is
Activation ==
    CHOOSE k \in 1..Len(native) :
        /\ native[k].fn = "executeFunction"
        /\ \A j \in (k + 1)..Len(native) : native[j].fn # "executeFunction"

\* the invocation number of the function activation now running
CurrentInvocation == native[Activation].inv

\* the history of executed statements: which invocation ran the statement of
\* which line, how deep in conditional bodies, with which frame on top
Logged ==
    log' = Append(log, [inv |-> CurrentInvocation,
                        program |-> Top.program,
                        line |-> Current.line,
                        type |-> Current.type,
                        isLast |-> CurrentIsLast,
                        depth |-> Len(native) - Activation - 1,
                        frames |-> Len(callStack),
                        function |-> currentFrame(runtime).functionName,
                        at |-> Len(output)])

\* statement done, executeStatement returned null: on to the next statement
Advance == native' = [native EXCEPT ![Len(native)].i = @ + 1]

\* the statement's own result is awaited by the loop
Await == [native EXCEPT ![Len(native)].pc = "await"]

Pop == SubSeq(native, 1, Len(native) - 1)

\* an exception leaves every activation; the Runtime is left as it is
Raise(e) ==
    /\ status' = "threw"
    /\ error' = e
    /\ native' = <<>>
    /\ result' = NoResult

(***************************************************************************)
(* The file system the interpreter reads external documents from: each     *)
(* file is given by the Program that parse returns for its text.           *)
(***************************************************************************)
Cwd == <<"/">>

LibPath == <<"/", "examples", "file-import", "lib.md">>

\* # double / 1. n / - result = n * 2 / **{result}**
LibProgram ==
    Program(<<FunctionDeclaration("double", <<"n">>,
        <<VariableDeclaration("result",
              BinaryExpression("*", Identifier("n"), Literal(Integer(2))), 4),
          PrintStatement(Identifier("result"), 6)>>)>>)

\* examples/nested/main.md: # main / 1. n / [n](util.md#triple)
NestedMain ==
    Program(<<FunctionDeclaration("main", <<"n">>,
        <<FunctionCallStatement("triple", <<"util.md">>, <<Identifier("n")>>, 5)>>)>>)

\* a util.md: # triple / 1. n / **{n * by}**
Util(by) ==
    Program(<<FunctionDeclaration("triple", <<"n">>,
        <<PrintStatement(BinaryExpression("*", Identifier("n"), Literal(Integer(by))),
                         5)>>)>>)

\* a helpers.md whose functions call its own show:
\* # run / 1. n / [n](#show)   # both / 1. n / [n](#show) / **done**
\* # show / 1. n / **lib**
Helpers ==
    Program(<<FunctionDeclaration("run", <<"n">>,
        <<FunctionCallStatement("show", NoPath, <<Identifier("n")>>, 5)>>),
      FunctionDeclaration("both", <<"n">>,
        <<FunctionCallStatement("show", NoPath, <<Identifier("n")>>, 11),
          PrintStatement(Literal(Str(<<"d", "o", "n", "e">>)), 13)>>),
      FunctionDeclaration("show", <<"n">>,
        <<PrintStatement(Literal(Str(<<"l", "i", "b">>)), 19)>>)>>)

HelpersPath == <<"/", "examples", "shadow", "helpers.md">>

Files ==
    [path \in {LibPath, HelpersPath,
               <<"/", "examples", "nested", "main.md">>,
               <<"/", "examples", "nested", "util.md">>,
               <<"/", "examples", "util.md">>} |->
        IF path = LibPath THEN LibProgram
        ELSE IF path = HelpersPath THEN Helpers
        ELSE IF path[Len(path)] = "main.md" THEN NestedMain
        ELSE IF Len(path) = 4 THEN Util(3)
        ELSE Util(-1)]

RemoteLib == <<"https:/", "example.com", "lib.md">>

RemoteMain == <<"https:/", "example.com", "pkg", "main.md">>

RemoteHelpers == <<"https:/", "example.com", "pkg", "helpers.md">>

\* remoteMain of the nested-import test: # main / [5](helpers.md#double)
RemoteMainProgram ==
    Program(<<FunctionDeclaration("main", <<>>,
        <<FunctionCallStatement("double", <<"helpers.md">>, <<Literal(Integer(5))>>,
                                3)>>)>>)

\* what fetch answers with status 200; every other URL is answered 404
Remote ==
    [url \in {RemoteLib, RemoteMain, RemoteHelpers} |->
        IF url = RemoteMain THEN RemoteMainProgram ELSE LibProgram]

\* the directory a Program's relative references are resolved in
baseDirOf(own) == IF own._baseDir = NoPath THEN Cwd ELSE own._baseDir

\* whether a reference made from baseDir names a fetched document
isRemoteReference(filePath, baseDir) ==
    filePath # NoPath /\ (isRemoteURL(filePath) \/ isRemoteURL(baseDir))

\* a plausible slip: the cache is never consulted
neverCached(cache, fullPath) == FALSE

\* externalProgramCache.has(fullPath)
isCached(cache, fullPath) == fullPath \in DOMAIN cache

\* a plausible slip: the new entry replaces the cache
cacheOnly(cache, fullPath, prog) == [k \in {fullPath} |-> prog]

\* externalProgramCache.set(fullPath, program)
cacheSet(cache, fullPath, prog) ==
    [k \in DOMAIN cache \cup {fullPath} |-> IF k = fullPath THEN prog ELSE cache[k]]

\* a plausible slip: the loaded Program keeps its caller's directory
callerBaseDir(fullPath, baseDir) == baseDir

\* program._baseDir = dirname(fullPath)
ownBaseDir(fullPath, baseDir) == dirname(fullPath)

\* the reads loadExternalProgram makes of the file system
readsOf(cache, filePath, baseDir) ==
    IF isCached(cache, resolve(baseDir, filePath)) THEN <<>>
    ELSE <<[identity |-> resolve(baseDir, filePath), kind |-> "read"]>>

\* loadExternalProgram: the Program's key and the cache after the call, or
\* the error readFileSync throws
loadExternalProgram(cache, filePath, baseDir) ==
    LET fullPath == resolve(baseDir, filePath)
    IN IF isCached(cache, fullPath)
       THEN [ok |-> TRUE, fullPath |-> fullPath, cache |-> cache]
       ELSE IF fullPath \notin DOMAIN Files
       THEN [ok |-> FALSE, err |-> Error("ENOENT: no such file or directory")]
       ELSE [ok |-> TRUE, fullPath |-> fullPath,
             cache |-> cacheSet(cache, fullPath,
                                [Files[fullPath] EXCEPT
                                   !._baseDir = ownBaseDir(fullPath, baseDir)])]

\* a plausible slip: the error does not say where the function was looked for
functionNotFoundAnywhere(functionName, externalFile) ==
    Error("Function '" \o functionName \o "' not found")

\* executeFunctionCall: the error for a name the target Program does not have
functionNotFound(functionName, externalFile) ==
    Error("Function '" \o functionName \o "' not found"
          \o (IF externalFile # NoPath
              THEN " in '" \o pathText(externalFile) \o "'"
              ELSE ""))

\* whether the call at hand must wait for a fetch, or fail, before it can go on
remoteUnresolved(statement, own) ==
    /\ isRemoteReference(statement.externalFile, baseDirOf(own))
    /\ ~(/\ call.mode = "async"
         /\ isMarkdownURL(resolveURL(baseDirOf(own), statement.externalFile))
         /\ isCached(externalProgramCache,
                     resolveURL(baseDirOf(own), statement.externalFile)))

\* no call came before, and no second interpretation is under way
NoPrevious ==
    [status |-> "none", breakFlag |-> FALSE, repeated |-> FALSE, inputs |-> <<>>,
     output |-> <<>>, error |-> NoError]

NoTask == [status |-> "none"]

\* a plausible slip: one Runtime is kept for all calls
keptRuntime(inputs) ==
    [callStack |-> callStack, output |-> output, breakFlag |-> breakFlag,
     inputBuffer |-> inputs, inputIndex |-> 0]

\* new Runtime(), and setInput(inputs) in interpret
newRuntime(inputs) ==
    [callStack |-> <<>>, output |-> <<>>, breakFlag |-> FALSE,
     inputBuffer |-> inputs, inputIndex |-> 0]

\* a plausible slip: the await is left out and the promise is bound
awaitedPromise(value) == Undefined

\* const value = await runtime.readInputAsync()
awaitedValue(value) == value

\* a plausible slip: the error does not say which entry function is missing
entryNotFoundUnnamed(entryPoint) == Error("Entry function not found")

\* interpret: throw new Error(`Entry function '${entryPoint}' not found`)
entryNotFound(entryPoint) ==
    Error("Entry function '" \o entryPoint \o "' not found")

(***************************************************************************)
(* interpret, up to its trampoline loop.                                   *)
(***************************************************************************)
interpret ==
    /\ status = "idle"
    /\ scenario # "none"
    /\ call.mode = "sync"
    /\ \E fresh \in {newRuntime(call.inputs)} :
          /\ callStack' = fresh.callStack
          /\ output' = fresh.output
          /\ breakFlag' = fresh.breakFlag
          /\ inputBuffer' = fresh.inputBuffer
          /\ inputIndex' = fresh.inputIndex
    /\ program' = [program EXCEPT !._baseDir = call.baseDir]
    /\ IF call.entryPoint \in DOMAIN program.functions
       THEN /\ result' = TailCallResult(EntryKey, call.entryPoint, call.args)
            /\ native' = <<[fn |-> "interpret"]>>
            /\ status' = "running"
            /\ error' = NoError
       ELSE Raise(entryNotFound(call.entryPoint))
    /\ runs' = runs + 1
    /\ UNCHANGED <<scenario, call, externalProgramCache, invCount, log>>
    /\ UNCHANGED <<printed, reads, loads>>
    /\ UNCHANGED evalVars
    /\ UNCHANGED transformVars
    /\ UNCHANGED readerVars
    /\ UNCHANGED sessionVars

\* interpretAsync, up to its trampoline loop: no input buffer is set; the
\* inputReader and the printHandler are set when given
interpretAsync ==
    /\ status = "idle"
    /\ scenario # "none"
    /\ call.mode = "async"
    /\ \E fresh \in {newRuntime(<<>>)} :
          /\ callStack' = fresh.callStack
          /\ output' = fresh.output
          /\ breakFlag' = fresh.breakFlag
          /\ inputBuffer' = fresh.inputBuffer
          /\ inputIndex' = fresh.inputIndex
    /\ program' = [program EXCEPT !._baseDir = call.baseDir]
    /\ IF call.entryPoint \in DOMAIN program.functions
       THEN /\ result' = TailCallResult(EntryKey, call.entryPoint, call.args)
            /\ native' = <<[fn |-> "interpret"]>>
            /\ status' = "running"
            /\ error' = NoError
       ELSE Raise(entryNotFound(call.entryPoint))
    /\ runs' = runs + 1
    /\ UNCHANGED <<scenario, call, externalProgramCache, invCount, log>>
    /\ UNCHANGED <<printed, reads, loads>>
    /\ UNCHANGED evalVars
    /\ UNCHANGED transformVars
    /\ UNCHANGED readerVars
    /\ UNCHANGED sessionVars

\* a trampoline loop (of interpret or of an eager call) calls executeFunction:
\* the arguments are bound, the frame is pushed and the body's loop begins
executeFunction ==
    /\ Running
    /\ Top.fn \in {"interpret", "executeFunctionCall"}
    /\ result.type = "TAIL_CALL"
    /\ LET func == programOf(result.program).functions[result.func]
       IN /\ callStack' = pushFrame(callStack, func.name,
                                    argBindings(func.parameters, result.args))
          /\ native' = native \o
                <<[fn |-> "executeFunction", program |-> result.program,
                   func |-> result.func, inv |-> invCount + 1],
                  [fn |-> "executeBlock", program |-> result.program,
                   statements |-> func.body, i |-> 0, pc |-> "loop"]>>
    /\ invCount' = invCount + 1
    /\ result' = NoResult
    /\ UNCHANGED <<scenario, program, call, externalProgramCache, output, breakFlag,
                   inputBuffer, inputIndex, status, error, log>>
    /\ UNCHANGED evalVars
    /\ UNCHANGED transformVars
    /\ UNCHANGED readerVars
    /\ UNCHANGED sessionVars
    /\ UNCHANGED hostVars

\* executeFunction after its body: the frame is popped, the body's result returned
executeFunctionReturn ==
    /\ Running
    /\ Top.fn = "executeFunction"
    /\ callStack' = framesAfterReturn(callStack)
    /\ native' = Pop
    /\ UNCHANGED <<scenario, program, call, externalProgramCache, output, breakFlag,
                   inputBuffer, inputIndex, result, status, error, invCount, log>>
    /\ UNCHANGED evalVars
    /\ UNCHANGED transformVars
    /\ UNCHANGED readerVars
    /\ UNCHANGED sessionVars
    /\ UNCHANGED hostVars

\* the loop of executeBlock ends: no statement is left, or the break flag is set
executeBlockExit ==
    /\ Running
    /\ Top.fn = "executeBlock"
    /\ Top.pc = "loop"
    /\ loopBreaks(breakFlag) \/ Top.i >= Len(Top.statements)
    /\ native' = Pop
    /\ result' = NoResult
    /\ callStack' = framesAfterBlock(callStack)
    /\ UNCHANGED <<scenario, program, call, externalProgramCache, output,
                   breakFlag, inputBuffer, inputIndex, status, error, invCount, log>>
    /\ UNCHANGED evalVars
    /\ UNCHANGED transformVars
    /\ UNCHANGED readerVars
    /\ UNCHANGED sessionVars
    /\ UNCHANGED hostVars

\* the loop of executeBlock gets the result of a conditional or a call statement
executeBlockResume ==
    /\ Running
    /\ Top.fn = "executeBlock"
    /\ Top.pc = "await"
    /\ LET res == IF Current.type = "ConditionalBlock"
                  THEN conditionalResult(result) ELSE result
       IN IF blockReturns(res)
          THEN /\ native' = Pop
               /\ result' = res
          ELSE /\ native' = [native EXCEPT ![Len(native)].pc = "loop",
                                           ![Len(native)].i = @ + 1]
               /\ result' = NoResult
    /\ UNCHANGED <<scenario, program, call, externalProgramCache, callStack, output,
                   breakFlag, inputBuffer, inputIndex, status, error, invCount, log>>
    /\ UNCHANGED evalVars
    /\ UNCHANGED transformVars
    /\ UNCHANGED readerVars
    /\ UNCHANGED sessionVars
    /\ UNCHANGED hostVars

\* the trampoline loop of an eager call ends: executeFunctionCall returns null
executeFunctionCallReturn ==
    /\ Running
    /\ Top.fn = "executeFunctionCall"
    /\ result.type # "TAIL_CALL"
    /\ native' = Pop
    /\ result' = NoResult
    /\ UNCHANGED <<scenario, program, call, externalProgramCache, callStack, output,
                   breakFlag, inputBuffer, inputIndex, status, error, invCount, log>>
    /\ UNCHANGED evalVars
    /\ UNCHANGED transformVars
    /\ UNCHANGED readerVars
    /\ UNCHANGED sessionVars
    /\ UNCHANGED hostVars

\* the trampoline loop of interpret ends: interpret returns runtime.getOutput()
interpretReturn ==
    /\ Running
    /\ Top.fn = "interpret"
    /\ result.type # "TAIL_CALL"
    /\ status' = "returned"
    /\ native' = <<>>
    /\ UNCHANGED <<scenario, program, call, externalProgramCache, callStack, output,
                   breakFlag, inputBuffer, inputIndex, result, error, invCount, log>>
    /\ UNCHANGED evalVars
    /\ UNCHANGED transformVars
    /\ UNCHANGED readerVars
    /\ UNCHANGED sessionVars
    /\ UNCHANGED hostVars

(***************************************************************************)
(* executeStatement, one action for each statement type.                   *)
(***************************************************************************)
executePrint ==
    /\ At("PrintStatement")
    /\ Logged
    /\ \E value \in {evaluate(Current.expression, runtime, Current.line)} :
          IF value.ok
          THEN /\ output' = Append(output, value.val)
               /\ printed' = deliver(printed, call.printHandler, value.val)
               /\ Advance
               /\ UNCHANGED <<result, status, error>>
          ELSE /\ Raise(value.err)
               /\ UNCHANGED <<output, printed>>
    /\ UNCHANGED <<scenario, program, call, externalProgramCache, callStack, breakFlag,
                   inputBuffer, inputIndex, invCount>>
    /\ UNCHANGED evalVars
    /\ UNCHANGED transformVars
    /\ UNCHANGED readerVars
    /\ UNCHANGED sessionVars
    /\ UNCHANGED <<reads, loads, runs>>

executeAssignment ==
    /\ At("AssignmentStatement")
    /\ Logged
    /\ IF undeclaredAssignment(callStack, Current)
       THEN /\ Raise(UndeclaredVariableError(Current.variable, Current.line))
            /\ UNCHANGED callStack
       ELSE \E value \in {assignmentValue(Current, runtime)} :
               IF value.ok
               THEN /\ callStack' = setVariable(callStack, Current.variable, value.val)
                    /\ Advance
                    /\ UNCHANGED <<result, status, error>>
               ELSE /\ Raise(value.err)
                    /\ UNCHANGED callStack
    /\ UNCHANGED <<scenario, program, call, externalProgramCache, output, breakFlag,
                   inputBuffer, inputIndex, invCount>>
    /\ UNCHANGED evalVars
    /\ UNCHANGED transformVars
    /\ UNCHANGED readerVars
    /\ UNCHANGED sessionVars
    /\ UNCHANGED hostVars

executeVariableDeclaration ==
    /\ At("VariableDeclaration")
    /\ Logged
    /\ \E value \in {evaluate(Current.value, runtime, Current.line)} :
          IF value.ok
          THEN /\ callStack' = declareVariable(callStack, Current.variable, value.val)
               /\ Advance
               /\ UNCHANGED <<result, status, error>>
          ELSE /\ Raise(value.err)
               /\ UNCHANGED callStack
    /\ UNCHANGED <<scenario, program, call, externalProgramCache, output, breakFlag,
                   inputBuffer, inputIndex, invCount>>
    /\ UNCHANGED evalVars
    /\ UNCHANGED transformVars
    /\ UNCHANGED readerVars
    /\ UNCHANGED sessionVars
    /\ UNCHANGED hostVars

executeFunctionCall ==
    /\ At("FunctionCallStatement")
    /\ Top.pc = "loop"
    /\ ~remoteUnresolved(Current, programOf(Top.program))
    /\ Logged
    /\ \E statement \in {Current}, own \in {programOf(Top.program)} :
       \E external \in {statement.externalFile # NoPath} :
       \E remote \in {isRemoteReference(statement.externalFile, baseDirOf(own))} :
       \E loaded \in {IF ~external
                      THEN [ok |-> TRUE, fullPath |-> targetProgram(Top.program),
                            cache |-> externalProgramCache]
                      ELSE IF remote
                      THEN [ok |-> TRUE,
                            fullPath |-> resolveURL(baseDirOf(own),
                                                    statement.externalFile),
                            cache |-> externalProgramCache]
                      ELSE loadExternalProgram(externalProgramCache,
                                               statement.externalFile,
                                               baseDirOf(own))} :
       /\ loads' = IF external /\ ~remote
                   THEN loads \o readsOf(externalProgramCache, statement.externalFile,
                                         baseDirOf(own))
                   ELSE loads
       /\ IF ~loaded.ok
          THEN /\ Raise(loaded.err)
               /\ UNCHANGED externalProgramCache
          ELSE /\ externalProgramCache' = loaded.cache
               /\ \E target \in {IF loaded.fullPath = EntryKey THEN program
                                 ELSE loaded.cache[loaded.fullPath]} :
                  IF statement.functionName \notin DOMAIN target.functions
                  THEN Raise(functionNotFound(statement.functionName,
                                              statement.externalFile))
                  ELSE \E args \in {evaluateArguments(statement.arguments, runtime,
                                                      statement.line)} :
                       IF ~args.ok THEN Raise(args.err)
                       ELSE /\ result' = TailCallResult(loaded.fullPath,
                                                        statement.functionName,
                                                        args.val)
                            /\ native' = IF isTailCall(CurrentIsLast)
                                         THEN Await
                                         ELSE Await \o <<[fn |-> "executeFunctionCall",
                                                          line |-> statement.line,
                                                          isLast |-> CurrentIsLast]>>
                            /\ UNCHANGED <<status, error>>
    /\ UNCHANGED <<scenario, program, call, callStack, output, breakFlag,
                   inputBuffer, inputIndex, invCount>>
    /\ UNCHANGED evalVars
    /\ UNCHANGED transformVars
    /\ UNCHANGED readerVars
    /\ UNCHANGED sessionVars
    /\ UNCHANGED <<printed, reads, runs>>

\* executeFunctionCall in front of a fetched document that is not in the cache:
\* the synchronous interpreter refuses it, the asynchronous one refuses a URL
\* that is no document and otherwise waits for fetch
executeRemoteCall ==
    /\ At("FunctionCallStatement")
    /\ Top.pc = "loop"
    /\ remoteUnresolved(Current, programOf(Top.program))
    /\ \E url \in {resolveURL(baseDirOf(programOf(Top.program)),
                               Current.externalFile)} :
          IF call.mode = "sync"
          THEN /\ Logged
               /\ Raise(Error("Remote URL imports require interpretAsync"))
               /\ UNCHANGED loads
          ELSE IF ~isMarkdownURL(url)
          THEN /\ Logged
               /\ Raise(Error("Remote imports must reference .md files"))
               /\ UNCHANGED loads
          ELSE /\ loads' = Append(loads, [identity |-> url, kind |-> "fetch"])
               /\ native' = [native EXCEPT ![Len(native)].pc = "fetch"]
               /\ UNCHANGED <<log, result, status, error>>
    /\ UNCHANGED <<scenario, program, call, externalProgramCache, callStack, output,
                   breakFlag, inputBuffer, inputIndex, invCount>>
    /\ UNCHANGED evalVars
    /\ UNCHANGED transformVars
    /\ UNCHANGED readerVars
    /\ UNCHANGED sessionVars
    /\ UNCHANGED <<printed, reads, runs>>

\* the fetch answers: a 200 puts the parsed document in the cache under its
\* URL and the call goes on from there, anything else ends the run
fetchResolved ==
    /\ Running
    /\ Top.fn = "executeBlock"
    /\ Top.pc = "fetch"
    /\ \E url \in {loads[Len(loads)].identity} :
          IF url \in DOMAIN Remote
          THEN /\ externalProgramCache' =
                     cacheSet(externalProgramCache, url,
                              [Remote[url] EXCEPT !._baseDir = ownBaseDir(url, url)])
               /\ native' = [native EXCEPT ![Len(native)].pc = "loop"]
               /\ UNCHANGED <<result, status, error>>
          ELSE /\ Raise(Error("Failed to fetch remote file: 404"))
               /\ UNCHANGED externalProgramCache
    /\ UNCHANGED <<scenario, program, call, callStack, output, breakFlag,
                   inputBuffer, inputIndex, invCount, log>>
    /\ UNCHANGED evalVars
    /\ UNCHANGED transformVars
    /\ UNCHANGED readerVars
    /\ UNCHANGED sessionVars
    /\ UNCHANGED hostVars

executeConditional ==
    /\ At("ConditionalBlock")
    /\ Logged
    /\ \E condition \in {evaluate(Current.condition, runtime, Current.line)} :
          IF ~condition.ok THEN Raise(condition.err)
          ELSE IF ToBoolean(condition.val)
          THEN /\ native' = Await \o
                     <<[fn |-> "executeBlock", program |-> Top.program,
                        statements |-> Current.body, i |-> 0, pc |-> "loop"]>>
               /\ result' = NoResult
               /\ UNCHANGED <<status, error>>
          ELSE /\ Advance
               /\ UNCHANGED <<result, status, error>>
    /\ UNCHANGED <<scenario, program, call, externalProgramCache, callStack, output,
                   breakFlag, inputBuffer, inputIndex, invCount>>
    /\ UNCHANGED evalVars
    /\ UNCHANGED transformVars
    /\ UNCHANGED readerVars
    /\ UNCHANGED sessionVars
    /\ UNCHANGED hostVars

executeBreak ==
    /\ At("BreakStatement")
    /\ Logged
    /\ breakFlag' = setBreak(breakFlag)
    /\ Advance
    /\ UNCHANGED <<scenario, program, call, externalProgramCache, callStack, output,
                   inputBuffer, inputIndex, result, status, error, invCount>>
    /\ UNCHANGED evalVars
    /\ UNCHANGED transformVars
    /\ UNCHANGED readerVars
    /\ UNCHANGED sessionVars
    /\ UNCHANGED hostVars

executeInput ==
    /\ At("InputStatement")
    /\ ~usesInputReader(call.inputReader)
    /\ Logged
    /\ LET read == readInput(inputBuffer, inputIndex)
       IN /\ callStack' = setVariable(callStack, Current.variable, read.value)
          /\ inputIndex' = read.index
    /\ Advance
    /\ UNCHANGED <<scenario, program, call, externalProgramCache, output, breakFlag,
                   inputBuffer, result, status, error, invCount>>
    /\ UNCHANGED evalVars
    /\ UNCHANGED transformVars
    /\ UNCHANGED readerVars
    /\ UNCHANGED sessionVars
    /\ UNCHANGED hostVars

\* what an input reader may resolve to: the text of a line
ProvidedValues == {Str(<<"2">>), Str(<<"a", "b">>)}

\* what the reader resolves its k-th call to: when the host repeats a
\* synchronous call asynchronously its reader hands out that call's inputs
Provided(k) ==
    IF previous.repeated
    THEN {IF k <= Len(previous.inputs) THEN previous.inputs[k] ELSE Null}
    ELSE ProvidedValues

\* executeInputAsync up to its await: the reader is asked for a value
executeInputAsync ==
    /\ At("InputStatement")
    /\ usesInputReader(call.inputReader)
    /\ Logged
    /\ reads' = Append(reads, [line |-> Current.line,
                               output |-> Len(output),
                               printed |-> Len(printed),
                               resolved |-> FALSE,
                               value |-> Null])
    /\ native' = [native EXCEPT ![Len(native)].pc = "input"]
    /\ UNCHANGED <<scenario, program, call, externalProgramCache, callStack, output,
                   breakFlag, inputBuffer, inputIndex, result, status, error, invCount>>
    /\ UNCHANGED evalVars
    /\ UNCHANGED transformVars
    /\ UNCHANGED readerVars
    /\ UNCHANGED sessionVars
    /\ UNCHANGED <<printed, loads, runs>>

\* the reader's promise resolves: executeInputAsync sets the variable and the
\* loop goes on
inputReaderResolved ==
    /\ Running
    /\ Top.fn = "executeBlock"
    /\ Top.pc = "input"
    /\ \E value \in Provided(Len(reads)) :
          /\ callStack' = setVariable(callStack, Current.variable, awaitedValue(value))
          /\ reads' = [reads EXCEPT ![Len(reads)].resolved = TRUE,
                                    ![Len(reads)].value = value]
    /\ native' = [native EXCEPT ![Len(native)].i = @ + 1,
                                ![Len(native)].pc = "loop"]
    /\ UNCHANGED <<scenario, program, call, externalProgramCache, output, breakFlag,
                   inputBuffer, inputIndex, result, status, error, invCount, log>>
    /\ UNCHANGED evalVars
    /\ UNCHANGED transformVars
    /\ UNCHANGED readerVars
    /\ UNCHANGED sessionVars
    /\ UNCHANGED <<printed, loads, runs>>

(***************************************************************************)
(* The documents the interpreter is run on.  Texts are abbreviated.        *)
(***************************************************************************)
Txt(s) == Literal(Str(s))
N(n) == Literal(Integer(n))
Internal(functionName, arguments, line) ==
    FunctionCallStatement(functionName, NoPath, arguments, line)

\* packages/examples/src/kitchen-sink.md
KitchenSink ==
    Program(<<
      FunctionDeclaration("main", <<>>,
        <<PrintStatement(Txt(<<"w", "e", "l", "c", "o", "m", "e">>), 3),
          PrintStatement(Txt(<<"n", "a", "m", "e", "?">>), 5),
          InputStatement("name", 7),
          PrintStatement(TemplateLiteral(<<LiteralPart(<<"H", "i", " ">>),
                                           ExpressionPart(Identifier("name")),
                                           LiteralPart(<<"!">>)>>), 9),
          PrintStatement(Txt(<<"n", "u", "m", "?">>), 11),
          InputStatement("num", 13),
          Internal("classify", <<Identifier("num")>>, 15),
          Internal("sum-to", <<Identifier("num"), N(0), N(1)>>, 17),
          Internal("square", <<Identifier("num")>>, 19),
          PrintStatement(TemplateLiteral(<<LiteralPart(<<"B", "y", "e", " ">>),
                                           ExpressionPart(Identifier("name")),
                                           LiteralPart(<<"!">>)>>), 21)>>),
      FunctionDeclaration("classify", <<"n">>,
        <<ConditionalBlock(BinaryExpression(">", Identifier("n"), N(0)),
            <<PrintStatement(TemplateLiteral(<<ExpressionPart(Identifier("n")),
                                               LiteralPart(<<" ", "p", "o", "s">>)>>), 29),
              BreakStatement(31)>>, 27),
          ConditionalBlock(BinaryExpression("==", Identifier("n"), N(0)),
            <<PrintStatement(TemplateLiteral(<<ExpressionPart(Identifier("n")),
                                               LiteralPart(<<" ", "z", "e", "r", "o">>)>>), 35),
              BreakStatement(37)>>, 33),
          PrintStatement(TemplateLiteral(<<ExpressionPart(Identifier("n")),
                                           LiteralPart(<<" ", "n", "e", "g">>)>>), 39)>>),
      FunctionDeclaration("sum-to", <<"n", "sum", "i">>,
        <<ConditionalBlock(BinaryExpression(">", Identifier("i"), Identifier("n")),
            <<PrintStatement(TemplateLiteral(<<LiteralPart(<<"s", "u", "m", " ">>),
                                               ExpressionPart(Identifier("sum"))>>), 49),
              BreakStatement(51)>>, 47),
          AssignmentStatement("sum", "+", Identifier("i"), 53),
          Internal("sum-to", <<Identifier("n"), Identifier("sum"),
                               BinaryExpression("+", Identifier("i"), N(1))>>, 55)>>),
      FunctionDeclaration("square", <<"n">>,
        <<listItemDeclaration([declMatch |-> TRUE, varName |-> "result",
                               value |-> BinaryExpression("*", Identifier("n"),
                                                          Identifier("n"))], 60),
          PrintStatement(TemplateLiteral(<<ExpressionPart(Identifier("n")),
                                           LiteralPart(<<" ", "s", "q", " ">>),
                                           ExpressionPart(Identifier("result"))>>), 62)>>)
    >>)

BigPositive == <<"b", "i", "g">>
MediumHigh == <<"m", "e", "d", "-", "h", "i", "g", "h">>
MediumLow == <<"m", "e", "d", "-", "l", "o", "w">>
SmallPositive == <<"s", "m", "a", "l", "l">>
Zero == <<"z", "e", "r", "o">>
Negative == <<"n", "e", "g", "a", "t", "i", "v", "e">>

\* the document of the nested-conditionals tests, main calling classify with n
NestedConditionals(n) ==
    Program(<<
      FunctionDeclaration("main", <<>>, <<Internal("classify", <<N(n)>>, 4)>>),
      FunctionDeclaration("classify", <<"n">>,
        <<ConditionalBlock(BinaryExpression(">", Identifier("n"), N(0)),
            <<ConditionalBlock(BinaryExpression(">", Identifier("n"), N(100)),
                <<PrintStatement(Txt(BigPositive), 14), BreakStatement(16)>>, 12),
              ConditionalBlock(BinaryExpression(">", Identifier("n"), N(5)),
                <<ConditionalBlock(BinaryExpression(">", Identifier("n"), N(8)),
                    <<PrintStatement(Txt(MediumHigh), 22), BreakStatement(24)>>, 20),
                  PrintStatement(Txt(MediumLow), 26),
                  BreakStatement(28)>>, 18),
              PrintStatement(Txt(SmallPositive), 30),
              BreakStatement(32)>>, 10),
          ConditionalBlock(BinaryExpression("==", Identifier("n"), N(0)),
            <<PrintStatement(Txt(Zero), 36), BreakStatement(38)>>, 34),
          PrintStatement(Txt(Negative), 40)>>)
    >>)

\* a document of calls in and out of tail position:
\*   # main / 1. a 1. b 1. c / **start** / [a, b, c](#outer) / **end**
\*   # outer / 1. a 1. b 1. c / ## *a* / ### *b* / #### *c* / **in3** /
\*     [2](#chain) / #### close / **x3** / [1](#chain) / ### close / **x2** /
\*     ## close / **x1**
\*   # chain / 1. k / [k](#leaf) / ## *k > 0* / [k - 1](#chain)
\*   # leaf / 1. k / **{k}**
Flow ==
    Program(<<
      FunctionDeclaration("main", <<"a", "b", "c">>,
        <<PrintStatement(Txt(<<"s", "t", "a", "r", "t">>), 7),
          Internal("outer", <<Identifier("a"), Identifier("b"), Identifier("c")>>, 9),
          PrintStatement(Txt(<<"e", "n", "d">>), 11)>>),
      FunctionDeclaration("outer", <<"a", "b", "c">>,
        <<ConditionalBlock(Identifier("a"),
            <<ConditionalBlock(Identifier("b"),
                <<ConditionalBlock(Identifier("c"),
                    <<PrintStatement(Txt(<<"i", "n", "3">>), 25),
                      Internal("chain", <<N(2)>>, 27)>>, 23),
                  PrintStatement(Txt(<<"x", "3">>), 31),
                  Internal("chain", <<N(1)>>, 33)>>, 21),
              PrintStatement(Txt(<<"x", "2">>), 37)>>, 19),
          PrintStatement(Txt(<<"x", "1">>), 41)>>),
      FunctionDeclaration("chain", <<"k">>,
        <<Internal("leaf", <<Identifier("k")>>, 47),
          ConditionalBlock(BinaryExpression(">", Identifier("k"), N(0)),
            <<Internal("chain", <<BinaryExpression("-", Identifier("k"), N(1))>>, 51)>>,
            49)>>),
      FunctionDeclaration("leaf", <<"k">>,
        <<PrintStatement(Identifier("k"), 57)>>)
    >>)

\* the documents of the declaration tests:
\*   "undeclared": x = 5
\*   "list":       - x = 5 / - y = 10 / - sum = x + y / **{sum}**
\*   "assign":     - x = 5 / x = 10 / **{x}**
\*   "bare":       - y / **{y}** / y = 7 / **{y}** / z += 1
Declarations(which) ==
    Program(<<FunctionDeclaration("main", <<>>,
      CASE which = "undeclared" ->
             <<AssignmentStatement("x", "null", N(5), 3)>>
        [] which = "list" ->
             <<listItemDeclaration([declMatch |-> TRUE, varName |-> "x", value |-> N(5)], 3),
               listItemDeclaration([declMatch |-> TRUE, varName |-> "y", value |-> N(10)], 4),
               listItemDeclaration([declMatch |-> TRUE, varName |-> "sum",
                                    value |-> BinaryExpression("+", Identifier("x"),
                                                               Identifier("y"))], 5),
               PrintStatement(Identifier("sum"), 7)>>
        [] which = "assign" ->
             <<listItemDeclaration([declMatch |-> TRUE, varName |-> "x", value |-> N(5)], 3),
               AssignmentStatement("x", "null", N(10), 5),
               PrintStatement(Identifier("x"), 7)>>
        [] which = "bare" ->
             <<listItemDeclaration([declMatch |-> FALSE, itemText |-> "y"], 3),
               PrintStatement(Identifier("y"), 5),
               AssignmentStatement("y", "null", N(7), 7),
               PrintStatement(Identifier("y"), 9),
               AssignmentStatement("z", "+", N(1), 11)>>)>>)

\* the documents of the external-import tests: [5](lib.md#name)
Import(name) ==
    Program(<<FunctionDeclaration("main", <<>>,
      <<FunctionCallStatement(name, <<"lib.md">>, <<N(5)>>, 3),
        FunctionCallStatement(name, <<".", "lib.md">>, <<N(7)>>, 5)>>)>>)

ImportDir == <<"/", "examples", "file-import">>

ExamplesDir == <<"/", "examples">>

\* # main / [2](nested/main.md#main) / **between** / [4](util.md#triple)
NestedImport ==
    Program(<<FunctionDeclaration("main", <<>>,
      <<FunctionCallStatement("main", <<"nested", "main.md">>, <<N(2)>>, 3),
        PrintStatement(Txt(<<"b", "e", "t", "w", "e", "e", "n">>), 5),
        FunctionCallStatement("triple", <<"util.md">>, <<N(4)>>, 7)>>)>>)

\* the documents of the remote-import tests: # main / [5](url#double) /
\* [3](url#double)
RemoteImport(url) ==
    Program(<<FunctionDeclaration("main", <<>>,
      <<FunctionCallStatement("double", url, <<N(5)>>, 3),
        FunctionCallStatement("double", url, <<N(3)>>, 5)>>),
      FunctionDeclaration("entry", <<>>,
      <<FunctionCallStatement("main", RemoteMain, <<N(5)>>, 9)>>)>>)

RemoteURLs ==
    {RemoteLib, <<"https:/", "example.com", "lib.js">>,
     <<"https:/", "example.com", "missing.md">>}

Bad == Txt(<<"b", "a", "d">>)

\* the documents of the type-error tests, one for each statement type that
\* evaluates an expression: **ok** comes first, then the statement that fails
TypeErrors(which) ==
    Program(<<FunctionDeclaration("main", <<>>,
      <<PrintStatement(Txt(<<"o", "k">>), 3),
        VariableDeclaration("x", Bad, 5)>>
      \o (IF which = "conditional"
          THEN <<ConditionalBlock(BinaryExpression(">", Identifier("x"), N(5)),
                                  <<PrintStatement(Txt(<<"y", "e", "s">>), 9)>>, 7)>>
          ELSE IF which = "argument"
          THEN <<Internal("helper", <<BinaryExpression("-", N(10), Bad)>>, 7)>>
          ELSE IF which = "declaration"
          THEN <<VariableDeclaration("y", BinaryExpression("*", Identifier("x"), N(2)),
                                     7)>>
          ELSE IF which = "print"
          THEN <<PrintStatement(UnaryExpression("-", Identifier("x")), 7)>>
          ELSE <<AssignmentStatement("x", "-", N(1), 7)>>)
      \o <<PrintStatement(Txt(<<"e", "n", "d">>), 11)>>),
      FunctionDeclaration("helper", <<"x">>,
      <<PrintStatement(Identifier("x"), 17)>>)>>)

\* # main / **hi** / ["bad" - 1](file#nonexistent), last or followed by **after**
Missing(file, tail) ==
    Program(<<FunctionDeclaration("main", <<>>,
      <<PrintStatement(Txt(<<"h", "i">>), 3),
        FunctionCallStatement("nonexistent", file,
                              <<BinaryExpression("-", Bad, N(1))>>, 5)>>
      \o (IF tail THEN <<>>
          ELSE <<PrintStatement(Txt(<<"a", "f", "t", "e", "r">>), 7)>>))>>)

\* # main / ?a / [](#reader) / ?c / **{c}**   # reader / ?b / **{b}**
Inputs ==
    Program(<<FunctionDeclaration("main", <<>>,
      <<InputStatement("a", 3),
        Internal("reader", <<>>, 5),
        InputStatement("c", 7),
        PrintStatement(Identifier("c"), 9)>>),
      FunctionDeclaration("reader", <<>>,
      <<InputStatement("b", 13),
        PrintStatement(Identifier("b"), 15)>>)>>)

Supplied == <<Integer(11), Integer(12), Integer(13), Integer(14)>>

Al == Str(<<"A", "l">>)

\* interpret(program, entryPoint, args, baseDir, inputs)
Run(name, prog, entryPoint, args, baseDir, inputs) ==
    [name |-> name, program |-> prog,
     call |-> [mode |-> "sync", entryPoint |-> entryPoint, args |-> args,
               baseDir |-> baseDir, inputs |-> inputs,
               inputReader |-> FALSE, printHandler |-> FALSE]]

\* interpretAsync(program, entryPoint, args, baseDir, inputReader, printHandler),
\* the last two given or null
RunAsync(name, prog, entryPoint, args, baseDir, inputReader, printHandler) ==
    [name |-> name, program |-> prog,
     call |-> [mode |-> "async", entryPoint |-> entryPoint, args |-> args,
               baseDir |-> baseDir, inputs |-> <<>>,
               inputReader |-> inputReader, printHandler |-> printHandler]]

Truths == {Bool(TRUE), Bool(FALSE)}

Scenarios ==
    {Run("kitchen-sink", KitchenSink, "main", <<>>, Cwd, <<Al, num>>) :
        num \in {Integer(2), Integer(0), Integer(-1), Str(<<"2">>), Str(<<>>),
                 Str(<<"a", "b">>)}}
    \cup {Run("kitchen-sink", KitchenSink, "main", <<>>, Cwd, <<Al>>)}
    \cup {Run("kitchen-sink", KitchenSink, "sum-to", <<Integer(n), Integer(0), Integer(1)>>,
              Cwd, <<>>) : n \in 0..MaxLoop}
    \cup {Run("kitchen-sink", KitchenSink, e, <<Integer(3)>>, Cwd, <<>>) :
              e \in {"square", "classify", "cube"}}
    \cup {Run("nested-conditionals", NestedConditionals(n), "main", <<>>, Cwd, <<>>) :
              n \in {200, 10, 7, 3, 0, -5}}
    \cup {Run("flow", Flow, "main", <<a, b, c>>, Cwd, <<>>) :
              a \in Truths, b \in Truths, c \in Truths}
    \cup {Run("flow", Flow, "chain", <<Integer(n)>>, Cwd, <<>>) : n \in 0..MaxLoop}
    \cup {Run("declarations", Declarations(which), "main", <<>>, Cwd, <<>>) :
              which \in {"undeclared", "list", "assign", "bare"}}
    \cup {Run("import", Import(name), "main", <<>>, dir, <<>>) :
              name \in {"double", "nonexistent"}, dir \in {ImportDir, Cwd}}
    \cup {Run("nested-import", NestedImport, "main", <<>>, ExamplesDir, <<>>)}
    \cup {Run("remote-import", RemoteImport(RemoteLib), "main", <<>>, Cwd, <<>>)}
    \cup {RunAsync("remote-import", RemoteImport(url), "main", <<>>, Cwd, FALSE, TRUE) :
              url \in RemoteURLs}
    \cup {RunAsync("remote-import", RemoteImport(RemoteLib), "entry", <<>>, Cwd,
                    FALSE, FALSE)}
    \cup {Run("type-errors", TypeErrors(which), "main", <<>>, Cwd, <<>>) :
              which \in {"conditional", "argument", "declaration", "print",
                         "assignment"}}
    \cup {RunAsync("type-errors", TypeErrors("print"), "main", <<>>, Cwd, FALSE, TRUE)}
    \cup {Run("missing", Missing(file, tail), "main", <<>>, ImportDir, <<>>) :
              file \in {NoPath, <<"lib.md">>}, tail \in BOOLEAN}
    \cup {Run("inputs", Inputs, "main", <<>>, Cwd, SubSeq(Supplied, 1, k)) :
              k \in 0..4}
    \cup {RunAsync("inputs", Inputs, "main", <<>>, Cwd, reader, TRUE) :
              reader \in BOOLEAN}
    \cup {RunAsync("kitchen-sink", KitchenSink, e, <<Integer(3)>>, Cwd, TRUE, handler) :
              e \in {"main", "cube"}, handler \in BOOLEAN}

Init ==
    /\ \E run \in Scenarios :
          /\ scenario = run.name
          /\ program = run.program
          /\ call = run.call
    /\ externalProgramCache = [k \in {} |-> Program(<<>>)]
    /\ callStack = <<>>
    /\ output = <<>>
    /\ breakFlag = FALSE
    /\ inputBuffer = <<>>
    /\ inputIndex = 0
    /\ native = <<>>
    /\ result = NoResult
    /\ status = "idle"
    /\ error = NoError
    /\ invCount = 0
    /\ log = <<>>
    /\ printed = <<>>
    /\ reads = <<>>
    /\ loads = <<>>
    /\ runs = 0
    /\ previous = NoPrevious
    /\ parked = NoTask
    /\ evalNode = Literal(Undefined)
    /\ evalFrame = [functionName |-> "main", variables |-> [v \in {} |-> Undefined],
                    declaredVariables |-> {}]
    /\ evalOutcome = [phase |-> "idle"]
    /\ TransformerIdle
    /\ ReaderIdle

\* the host makes its next call of the interpreter, on a document of its
\* choice; what the last call left in the module cache is still there, and so
\* is the Runtime of the last call, which the next call does not use
nextCall ==
    /\ status \in {"returned", "threw"}
    /\ runs < MaxRuns
    /\ \E run \in Scenarios :
          /\ scenario' = run.name
          /\ program' = run.program
          /\ call' = run.call
    /\ status' = "idle"
    /\ error' = NoError
    /\ native' = <<>>
    /\ result' = NoResult
    /\ invCount' = 0
    /\ log' = <<>>
    /\ printed' = <<>>
    /\ reads' = <<>>
    /\ previous' = [NoPrevious EXCEPT !.status = status, !.breakFlag = breakFlag]
    /\ UNCHANGED <<callStack, output, breakFlag, inputBuffer, inputIndex>>
    /\ UNCHANGED <<externalProgramCache, loads, runs>>
    /\ UNCHANGED evalVars
    /\ UNCHANGED transformVars
    /\ UNCHANGED readerVars
    /\ UNCHANGED parked

\* the host makes the call it has just made synchronously once more, this
\* time with interpretAsync and a reader that hands out the same inputs
repeatAsync ==
    /\ status \in {"returned", "threw"}
    /\ runs < MaxRuns
    /\ call.mode = "sync"
    /\ scenario # "remote-import"
    /\ call' = [call EXCEPT !.mode = "async", !.inputs = <<>>, !.inputReader = TRUE]
    /\ previous' = [status |-> status, breakFlag |-> breakFlag, repeated |-> TRUE,
                    inputs |-> call.inputs, output |-> output, error |-> error]
    /\ status' = "idle"
    /\ error' = NoError
    /\ native' = <<>>
    /\ result' = NoResult
    /\ invCount' = 0
    /\ log' = <<>>
    /\ printed' = <<>>
    /\ reads' = <<>>
    /\ UNCHANGED <<scenario, program, callStack, output, breakFlag, inputBuffer,
                   inputIndex>>
    /\ UNCHANGED <<externalProgramCache, loads, runs>>
    /\ UNCHANGED evalVars
    /\ UNCHANGED transformVars
    /\ UNCHANGED readerVars
    /\ UNCHANGED parked

\* clearExternalProgramCache, which a host calls between two runs
clearExternalProgramCache ==
    /\ status # "running"
    /\ scenario # "none"
    /\ DOMAIN externalProgramCache # {}
    /\ externalProgramCache' = [k \in {} |-> Program(<<>>)]
    /\ loads' = Append(loads, [identity |-> NoPath, kind |-> "reset"])
    /\ UNCHANGED <<scenario, program, call, callStack, output, breakFlag, inputBuffer,
                   inputIndex, native, result, status, error, invCount, log, printed,
                   reads, runs>>
    /\ UNCHANGED evalVars
    /\ UNCHANGED transformVars
    /\ UNCHANGED readerVars
    /\ UNCHANGED sessionVars

Next ==
    \/ interpret
    \/ interpretAsync
    \/ executeRemoteCall
    \/ fetchResolved
    \/ executeInputAsync
    \/ inputReaderResolved
    \/ nextCall
    \/ repeatAsync
    \/ clearExternalProgramCache
    \/ executeFunction
    \/ executeFunctionReturn
    \/ executeBlockExit
    \/ executeBlockResume
    \/ executeFunctionCallReturn
    \/ interpretReturn
    \/ executePrint
    \/ executeAssignment
    \/ executeVariableDeclaration
    \/ executeFunctionCall
    \/ executeConditional
    \/ executeBreak
    \/ executeInput

Spec == Init /\ [][Next]_vars

(***************************************************************************)
(* Two interpretAsync calls under way at once on one Program object.  The  *)
(* variables of the Runtime and of the call belong to the interpretation   *)
(* in control; parked holds those of the other one.  The Program object    *)
(* and the module cache are the same for both.                             *)
(***************************************************************************)
\* what belongs to one interpretation: the locals of its interpretAsync call,
\* its Runtime and the history kept of it
private ==
    [call |-> call, callStack |-> callStack, output |-> output,
     breakFlag |-> breakFlag, inputBuffer |-> inputBuffer,
     inputIndex |-> inputIndex, native |-> native, result |-> result,
     status |-> status, error |-> error, invCount |-> invCount, log |-> log,
     printed |-> printed, reads |-> reads]

\* an interpretation can be left where it has not begun, has ended, or awaits
\* its input reader or a fetch
Suspended ==
    \/ status # "running"
    \/ /\ Running
       /\ Top.fn = "executeBlock"
       /\ Top.pc \in {"input", "fetch"}

\* the event loop turns to the other interpretation
switchTask ==
    /\ parked # NoTask
    /\ parked.status \in {"idle", "running"}
    /\ Suspended
    /\ parked' = private
    /\ call' = parked.call
    /\ callStack' = parked.callStack
    /\ output' = parked.output
    /\ breakFlag' = parked.breakFlag
    /\ inputBuffer' = parked.inputBuffer
    /\ inputIndex' = parked.inputIndex
    /\ native' = parked.native
    /\ result' = parked.result
    /\ status' = parked.status
    /\ error' = parked.error
    /\ invCount' = parked.invCount
    /\ log' = parked.log
    /\ printed' = parked.printed
    /\ reads' = parked.reads
    /\ UNCHANGED <<scenario, program, externalProgramCache, loads, runs, previous>>
    /\ UNCHANGED evalVars
    /\ UNCHANGED transformVars
    /\ UNCHANGED readerVars

NestedDir == <<"/", "examples", "nested">>

\* # main / **n?** / ?n / [n](util.md#triple)
Interleaved ==
    Program(<<FunctionDeclaration("main", <<>>,
      <<PrintStatement(Txt(<<"n", "?">>), 3),
        InputStatement("n", 5),
        FunctionCallStatement("triple", <<"util.md">>, <<Identifier("n")>>, 7)>>)>>)

\* the host calls interpretAsync twice on one Program before either call has
\* finished, each with a base directory of its own
InitInterleaved ==
    /\ scenario = "interleaved"
    /\ program = Interleaved
    /\ \E first \in {ExamplesDir, NestedDir}, second \in {ExamplesDir, NestedDir},
          handler \in BOOLEAN :
          /\ call = RunAsync("interleaved", Interleaved, "main", <<>>, first, TRUE,
                             handler).call
          /\ parked = [call |-> RunAsync("interleaved", Interleaved, "main", <<>>,
                                         second, TRUE, handler).call,
                       callStack |-> <<>>, output |-> <<>>, breakFlag |-> FALSE,
                       inputBuffer |-> <<>>, inputIndex |-> 0, native |-> <<>>,
                       result |-> NoResult, status |-> "idle", error |-> NoError,
                       invCount |-> 0, log |-> <<>>, printed |-> <<>>,
                       reads |-> <<>>]
    /\ externalProgramCache = [k \in {} |-> Program(<<>>)]
    /\ callStack = <<>>
    /\ output = <<>>
    /\ breakFlag = FALSE
    /\ inputBuffer = <<>>
    /\ inputIndex = 0
    /\ native = <<>>
    /\ result = NoResult
    /\ status = "idle"
    /\ error = NoError
    /\ invCount = 0
    /\ log = <<>>
    /\ printed = <<>>
    /\ reads = <<>>
    /\ loads = <<>>
    /\ runs = 0
    /\ previous = NoPrevious
    /\ evalNode = Literal(Undefined)
    /\ evalFrame = [functionName |-> "main", variables |-> [v \in {} |-> Undefined],
                    declaredVariables |-> {}]
    /\ evalOutcome = [phase |-> "idle"]
    /\ TransformerIdle
    /\ ReaderIdle

NextInterleaved ==
    \/ interpretAsync
    \/ executeFunction
    \/ executeFunctionReturn
    \/ executeBlockExit
    \/ executeBlockResume
    \/ interpretReturn
    \/ executePrint
    \/ executeFunctionCall
    \/ executeInputAsync
    \/ inputReaderResolved
    \/ switchTask

SpecInterleaved == InitInterleaved /\ [][NextInterleaved]_vars

(***************************************************************************)
(* The example documents run one at a time from their entry function by    *)
(* interpret, each in a session of its own.                                *)
(***************************************************************************)
Fizz == <<"f", "i", "z", "z">>
Buzz == <<"b", "u", "z", "z">>

NextOf(name) == BinaryExpression("+", Identifier(name), N(1))
DivisibleBy(name, n) ==
    BinaryExpression("==", BinaryExpression("%", Identifier(name), N(n)), N(0))

\* src/web/src/main.ts, DEFAULT_PROGRAM: the bare list items name the
\* parameters, the item with a value declares text
Fizzbuzz ==
    Program(<<
      FunctionDeclaration("main", <<>>,
        <<Internal("fizzbuzz", <<N(1), N(100)>>, 3)>>),
      FunctionDeclaration("fizzbuzz", <<"start", "end">>,
        <<Internal("loop", <<Identifier("start"), Identifier("end")>>, 10)>>),
      FunctionDeclaration("loop", <<"i", "end">>,
        <<listItemDeclaration([declMatch |-> TRUE, varName |-> "text",
                               value |-> Txt(<<>>)], 16),
          ConditionalBlock(BinaryExpression(">", Identifier("i"), Identifier("end")),
            <<BreakStatement(20)>>, 18),
          ConditionalBlock(DivisibleBy("i", 15),
            <<PrintStatement(Txt(Fizz \o Buzz), 24),
              Internal("loop", <<NextOf("i"), Identifier("end")>>, 26),
              BreakStatement(28)>>, 22),
          ConditionalBlock(DivisibleBy("i", 3),
            <<AssignmentStatement("text", "null", Txt(Fizz), 32)>>, 30),
          ConditionalBlock(DivisibleBy("i", 5),
            <<AssignmentStatement("text", "+", Txt(Buzz), 36)>>, 34),
          ConditionalBlock(Identifier("text"),
            <<PrintStatement(Identifier("text"), 40),
              Internal("loop", <<NextOf("i"), Identifier("end")>>, 42),
              BreakStatement(44)>>, 38),
          PrintStatement(Identifier("i"), 46),
          Internal("loop", <<NextOf("i"), Identifier("end")>>, 48)>>)>>)

ShadowDir == <<"/", "examples", "shadow">>

\* # main / [1](helpers.md#name) / **after**   # show / 1. n / **entry**
\* with the call as the last statement of main when tail
Shadow(name, tail) ==
    Program(<<FunctionDeclaration("main", <<>>,
        <<FunctionCallStatement(name, <<"helpers.md">>, <<N(1)>>, 3)>>
        \o (IF tail THEN <<>>
            ELSE <<PrintStatement(Txt(<<"a", "f", "t", "e", "r">>), 5)>>)),
      FunctionDeclaration("show", <<"n">>,
        <<PrintStatement(Txt(<<"e", "n", "t", "r", "y">>), 11)>>)>>)

\* # main / 1. a 2. b / - x = 0 / ## *a* / - y = 1 / x = 1 / ### *b* /
\* - z = 2 / y += z / x = z / ### end / **{y}** / ## *a* / y += 1 / ## end /
\* **{x}** / **{y}**
Scope ==
    Program(<<FunctionDeclaration("main", <<"a", "b">>,
        <<listItemDeclaration([declMatch |-> TRUE, varName |-> "x", value |-> N(0)], 6),
          ConditionalBlock(Identifier("a"),
            <<listItemDeclaration([declMatch |-> TRUE, varName |-> "y",
                                   value |-> N(1)], 10),
              AssignmentStatement("x", "null", N(1), 12),
              ConditionalBlock(Identifier("b"),
                <<listItemDeclaration([declMatch |-> TRUE, varName |-> "z",
                                       value |-> N(2)], 16),
                  AssignmentStatement("y", "+", Identifier("z"), 18),
                  AssignmentStatement("x", "null", Identifier("z"), 20)>>, 14),
              PrintStatement(Identifier("y"), 24)>>, 8),
          ConditionalBlock(Identifier("a"),
            <<AssignmentStatement("y", "+", N(1), 28)>>, 26),
          PrintStatement(Identifier("x"), 32),
          PrintStatement(Identifier("y"), 34)>>)>>)

\* # main / 1. n / 2. m / n = n + 1 / m += n / **{m}**
Parameters ==
    Program(<<FunctionDeclaration("main", <<"n", "m">>,
        <<AssignmentStatement("n", "null", NextOf("n"), 6),
          AssignmentStatement("m", "+", Identifier("n"), 8),
          PrintStatement(Identifier("m"), 10)>>)>>)

\* # main / 1. v / 2. x / 3. y / y = v / x op= v / **{x}** / **{y}**
Compound(op) ==
    Program(<<FunctionDeclaration("main", <<"v", "x", "y">>,
        <<AssignmentStatement("y", "null", Identifier("v"), 7),
          AssignmentStatement("x", op, Identifier("v"), 9),
          PrintStatement(Identifier("x"), 11),
          PrintStatement(Identifier("y"), 13)>>)>>)

\* # main / 1. x / [5](#f) / [7](#g) / **{x}**   # f / 1. y / **{x}** / **{y}**
\* # g / 1. x / x += 1 / **{x}**
Frames ==
    Program(<<FunctionDeclaration("main", <<"x">>,
        <<Internal("f", <<N(5)>>, 5),
          Internal("g", <<N(7)>>, 7),
          PrintStatement(Identifier("x"), 9)>>),
      FunctionDeclaration("f", <<"y">>,
        <<PrintStatement(Identifier("x"), 15),
          PrintStatement(Identifier("y"), 17)>>),
      FunctionDeclaration("g", <<"x">>,
        <<AssignmentStatement("x", "+", N(1), 23),
          PrintStatement(Identifier("x"), 25)>>)>>)

\* the values the assigned v takes
Assigned ==
    {Integer(5), Integer(0), Num(-3, 2), Str(<<"a">>), Str(<<"5">>), Str(<<>>),
     Bool(TRUE), Null}

\* the values x holds before x op= v
Held == {Integer(6), Num(1, 2), Str(<<"a">>), Str(<<"5">>)}

Examples ==
    {Run("fizzbuzz", Fizzbuzz, "main", <<>>, Cwd, <<>>)}
    \cup {Run("held", Compound(op), "main", <<v, x>>, Cwd, <<>>) :
              op \in {"+", "-", "*", "/"}, v \in Assigned, x \in Held}
    \cup {Run("compound", Compound(op), "main", <<v>>, Cwd, <<>>) :
              op \in {"+", "-", "*", "/"}, v \in Assigned}
    \cup {Run("frames", Frames, "main", <<x>>, Cwd, <<>>) :
              x \in {Integer(1), Str(<<"a">>)}}
    \cup {Run("parameters", Parameters, "main", args, Cwd, <<>>) :
              args \in {<<Integer(1)>>, <<Integer(1), Integer(5)>>}}
    \cup {Run("kitchen-sink", KitchenSink, "sum-to",
              <<Integer(n), Integer(0), Integer(1)>>, Cwd, <<>>) : n \in 0..MaxLoop}
    \cup {Run("scope", Scope, "main", <<a, b>>, Cwd, <<>>) : a \in Truths, b \in Truths}
    \cup {Run("shadow", Shadow(name, tail), "main", <<>>, ShadowDir, <<>>) :
              name \in {"run", "both"}, tail \in BOOLEAN}

InitExamples ==
    /\ \E run \in Examples :
          /\ scenario = run.name
          /\ program = run.program
          /\ call = run.call
    /\ externalProgramCache = [k \in {} |-> Program(<<>>)]
    /\ callStack = <<>>
    /\ output = <<>>
    /\ breakFlag = FALSE
    /\ inputBuffer = <<>>
    /\ inputIndex = 0
    /\ native = <<>>
    /\ result = NoResult
    /\ status = "idle"
    /\ error = NoError
    /\ invCount = 0
    /\ log = <<>>
    /\ printed = <<>>
    /\ reads = <<>>
    /\ loads = <<>>
    /\ runs = 0
    /\ previous = NoPrevious
    /\ parked = NoTask
    /\ evalNode = Literal(Undefined)
    /\ evalFrame = [functionName |-> "main", variables |-> [v \in {} |-> Undefined],
                    declaredVariables |-> {}]
    /\ evalOutcome = [phase |-> "idle"]
    /\ TransformerIdle
    /\ ReaderIdle

NextExamples ==
    \/ interpret
    \/ executeFunction
    \/ executeFunctionReturn
    \/ executeBlockExit
    \/ executeBlockResume
    \/ executeFunctionCallReturn
    \/ interpretReturn
    \/ executePrint
    \/ executeAssignment
    \/ executeVariableDeclaration
    \/ executeFunctionCall
    \/ executeConditional
    \/ executeBreak

SpecExamples == InitExamples /\ [][NextExamples]_vars

(***************************************************************************)
(* The evaluator specification: one expression, drawn from a bounded set   *)
(* of operators and operands, is evaluated against one frame.              *)
(***************************************************************************)
OperandValues ==
    {Integer(0), Integer(5), Integer(-3), Norm(1, 2),
     Str(<<>>), Str(<<"5">>), Str(<<"-", "3">>), Str(<<" ", "7">>),
     Str(<<"1", ".", "5">>), Str(<<"a", "b">>), Str(<<" ">>),
     Bool(TRUE), Bool(FALSE), Undefined, Null}

BinaryOperators ==
    {"+", "-", "*", "/", "%", "==", "!=", "<", ">", "<=", ">=",
     "===", "!==", "&&", "||"}

UnaryOperators == {"!", "-", "+"}

\* an operand whose own evaluation raises a RuntimeTypeError
ThrowingOperand == BinaryExpression("-", Literal(Str(<<"a", "b">>)), Literal(Integer(1)))

Operands == {Literal(v) : v \in OperandValues} \cup {Identifier("x"), ThrowingOperand}

EvalNodes ==
    {BinaryExpression(op, l, r) : op \in BinaryOperators, l \in Operands, r \in Operands}
    \cup {UnaryExpression(op, a) : op \in UnaryOperators, a \in Operands}
    \cup {TemplateLiteral(<<LiteralPart(<<"n", "=">>), ExpressionPart(a)>>) : a \in Operands}

EvalFrames ==
    {[functionName |-> "main", variables |-> [v \in {"x"} |-> Integer(5)], declaredVariables |-> {"x"}],
     [functionName |-> "main", variables |-> [v \in {"x"} |-> Str(<<"a", "b">>)], declaredVariables |-> {"x"}],
     [functionName |-> "main", variables |-> [v \in {} |-> Undefined], declaredVariables |-> {}]}

EvalLine == 4
MaxNodes == 6

InterpreterIdle ==
    /\ scenario = "none"
    /\ program = Program(<<>>)
    /\ call = [mode |-> "sync", entryPoint |-> "main", args |-> <<>>,
               baseDir |-> <<"/">>, inputs |-> <<>>,
               inputReader |-> FALSE, printHandler |-> FALSE]
    /\ externalProgramCache = [k \in {} |-> Program(<<>>)]
    /\ callStack = <<>>
    /\ output = <<>>
    /\ breakFlag = FALSE
    /\ inputBuffer = <<>>
    /\ inputIndex = 0
    /\ native = <<>>
    /\ result = NoResult
    /\ status = "idle"
    /\ error = NoError
    /\ invCount = 0
    /\ log = <<>>
    /\ printed = <<>>
    /\ reads = <<>>
    /\ loads = <<>>
    /\ runs = 0
    /\ previous = NoPrevious
    /\ parked = NoTask

EvalInit ==
    /\ InterpreterIdle
    /\ evalNode \in EvalNodes
    /\ evalFrame \in EvalFrames
    /\ evalOutcome = [phase |-> "pending"]
    /\ TransformerIdle
    /\ ReaderIdle

EvaluateExpression ==
    /\ evalOutcome.phase = "pending"
    /\ LET r == evaluate(evalNode, [callStack |-> <<evalFrame>>], EvalLine)
       IN evalOutcome' =
            IF r.ok THEN [phase |-> "done", ok |-> TRUE, val |-> r.val]
            ELSE [phase |-> "done", ok |-> FALSE, err |-> r.err]
    /\ UNCHANGED <<evalNode, evalFrame>>
    /\ UNCHANGED transformVars
    /\ UNCHANGED readerVars
    /\ UNCHANGED interpVars

EvalNext == EvaluateExpression

SpecEval == EvalInit /\ [][EvalNext]_vars

(***************************************************************************)
(* The walk of mdastToProgram over the children of a document tree, one    *)
(* node a step.  The tree is any sequence of at most MaxNodes nodes; the    *)
(* line of a node is its position in the tree.                             *)
(***************************************************************************)
HeadingDepths == 2..6

\* the node is taken from the tree and its line is known
Taken(next) ==
    /\ position < MaxNodes
    /\ position' = position + 1
    /\ mdastNode' = [next EXCEPT !.line = position + 1]

\* a plausible slip: statements go to the function body whatever is open
functionBodyWith(statement) ==
    [functions EXCEPT ![currentFunction].body =
        pushStatement(@, blockStack[1], statement)]

\* blockStack[blockStack.length - 1].push(statement)
currentBlockWith(statement) ==
    [functions EXCEPT ![currentFunction].body =
        pushStatement(@, blockStack[Len(blockStack)], statement)]

\* the link targets met: #f, l#f#g and f
Urls == {<<"#", "f">>, <<"l", "#", "f", "#", "g">>, <<"f">>}

\* the sole child of a paragraph: strong text, a link, or plain text that is
\* not an assignment
Children ==
    {[parsed |-> "PrintStatement", url |-> <<>>], [parsed |-> "null", url |-> <<>>]}
       \cup {[parsed |-> "FunctionCallStatement", url |-> url] : url \in Urls}

\* heading of depth 1: a function declaration, # name
functionHeading ==
    /\ \E name \in {"main"} :
          /\ Taken([type |-> "heading", depth |-> 1, text |-> name, line |-> 0])
          /\ functions' = declared(functions, name)
          /\ currentFunction' = name
    /\ blockStack' = <<NoPath>>
    /\ UNCHANGED interpVars
    /\ UNCHANGED evalVars
    /\ UNCHANGED readerVars

\* heading of depth 2 to 6: the scopes deeper than its parent are closed, and
\* with emphasized condition text under the parent a conditional is opened
conditionalHeading ==
    /\ \E depth \in HeadingDepths, emphasis \in {"null", "c"} :
          /\ Taken([type |-> "heading", depth |-> depth, emphasis |-> emphasis,
                    line |-> 0])
          /\ IF currentFunction = NoFunction
             THEN UNCHANGED <<functions, blockStack>>
             ELSE \E stack \in {trimmed(blockStack, depth)} :
                  IF parentOpen(stack, depth) /\ emphasis # "null"
                  THEN \E currentBlock \in {stack[Len(stack)]} :
                       /\ functions' =
                            [functions EXCEPT ![currentFunction].body =
                                pushStatement(@, currentBlock,
                                    ConditionalBlock(Identifier(emphasis), <<>>,
                                                     position + 1))]
                       /\ blockStack' =
                            Append(stack,
                                   currentBlock \o
                                   <<Len(blockAt(functions[currentFunction].body,
                                                 currentBlock)) + 1>>)
                  ELSE /\ blockStack' = stack
                       /\ UNCHANGED functions
    /\ UNCHANGED currentFunction
    /\ UNCHANGED interpVars
    /\ UNCHANGED evalVars
    /\ UNCHANGED readerVars

\* an ordered list directly in the function body: parameter declarations
orderedList ==
    /\ \E items \in {<<"n">>, <<"n", "m">>} :
          /\ Taken([type |-> "list", ordered |-> TRUE, items |-> items, line |-> 0])
          /\ IF currentFunction # NoFunction /\ atFunctionLevel(blockStack)
             THEN functions' = [functions EXCEPT ![currentFunction].parameters =
                                                     @ \o items]
             ELSE UNCHANGED functions
    /\ UNCHANGED <<currentFunction, blockStack>>
    /\ UNCHANGED interpVars
    /\ UNCHANGED evalVars
    /\ UNCHANGED readerVars

\* an unordered list in an open block: a variable declaration
unorderedList ==
    /\ \E item \in {[declMatch |-> FALSE, itemText |-> "x"]} :
          /\ Taken([type |-> "list", ordered |-> FALSE, items |-> <<item>>,
                    line |-> 0])
          /\ IF currentFunction # NoFunction /\ Len(blockStack) > 0
             THEN functions' = currentBlockWith(listItemDeclaration(item, position + 1))
             ELSE UNCHANGED functions
    /\ UNCHANGED <<currentFunction, blockStack>>
    /\ UNCHANGED interpVars
    /\ UNCHANGED evalVars
    /\ UNCHANGED readerVars

\* a paragraph in an open block: the statement parseParagraph reads in it, if
\* it reads one
paragraph ==
    /\ \E child \in Children :
          /\ Taken([type |-> "paragraph", parsed |-> child.parsed,
                    url |-> child.url, line |-> 0])
          /\ IF Len(blockStack) > 0 /\ parseParagraph(mdastNode') # Null
             THEN functions' = currentBlockWith(parseParagraph(mdastNode'))
             ELSE UNCHANGED functions
    /\ UNCHANGED <<currentFunction, blockStack>>
    /\ UNCHANGED interpVars
    /\ UNCHANGED evalVars
    /\ UNCHANGED readerVars

\* a thematic break: a break in the current block, which is then closed unless
\* it is the function body
thematicBreak ==
    /\ Taken([type |-> "thematicBreak", line |-> 0])
    /\ IF currentFunction = NoFunction
       THEN UNCHANGED <<functions, blockStack>>
       ELSE /\ functions' = IF Len(blockStack) > 0
                            THEN currentBlockWith(BreakStatement(position + 1))
                            ELSE functions
            /\ blockStack' = poppedOnce(blockStack)
    /\ UNCHANGED currentFunction
    /\ UNCHANGED interpVars
    /\ UNCHANGED evalVars
    /\ UNCHANGED readerVars

\* a blockquote in an open block: an input statement, > variableName
blockquote ==
    /\ \E varName \in {"v", ""} :
          /\ Taken([type |-> "blockquote", text |-> varName, line |-> 0])
          /\ IF Len(blockStack) > 0 /\ varName # ""
             THEN functions' = currentBlockWith(InputStatement(varName, position + 1))
             ELSE UNCHANGED functions
    /\ UNCHANGED <<currentFunction, blockStack>>
    /\ UNCHANGED interpVars
    /\ UNCHANGED evalVars
    /\ UNCHANGED readerVars

\* a code block, like any other node, is passed over
ignoredNode ==
    /\ Taken([type |-> "code", line |-> 0])
    /\ UNCHANGED <<functions, currentFunction, blockStack>>
    /\ UNCHANGED interpVars
    /\ UNCHANGED evalVars
    /\ UNCHANGED readerVars

InitTransform ==
    /\ InterpreterIdle
    /\ evalNode = Literal(Undefined)
    /\ evalFrame = [functionName |-> "main", variables |-> [v \in {} |-> Undefined],
                    declaredVariables |-> {}]
    /\ evalOutcome = [phase |-> "idle"]
    /\ TransformerIdle
    /\ ReaderIdle

NextTransform ==
    \/ functionHeading
    \/ conditionalHeading
    \/ orderedList
    \/ unorderedList
    \/ paragraph
    \/ thematicBreak
    \/ blockquote
    \/ ignoredNode

SpecTransform == InitTransform /\ [][NextTransform]_vars

(***************************************************************************)
(* The command line's input reader: standard input delivers up to MaxLines *)
(* lines and closes, while the interpretation makes up to MaxReads reads,  *)
(* one at a time, as every read is awaited.                                *)
(***************************************************************************)
\* rl.on('line', ...): the line goes to the pending read or into the buffer
onLine ==
    /\ ~rlClosed
    /\ received < MaxLines
    /\ received' = received + 1
    /\ \E text \in {"a", "b"} :
          IF lineResolve # NoResolve
          THEN /\ lineResolve' = NoResolve
               /\ answers' = Append(answers, stdinLine(received + 1, text))
               /\ UNCHANGED lineBuffer
          ELSE /\ lineBuffer' = Append(lineBuffer, stdinLine(received + 1, text))
               /\ UNCHANGED <<lineResolve, answers>>
    /\ UNCHANGED rlClosed
    /\ UNCHANGED interpVars
    /\ UNCHANGED evalVars
    /\ UNCHANGED transformVars

\* rl.on('close', ...): the pending read, if any, resolves with ''
onClose ==
    /\ ~rlClosed
    /\ rlClosed' = TRUE
    /\ IF lineResolve # NoResolve
       THEN /\ lineResolve' = NoResolve
            /\ answers' = Append(answers, EmptyString)
       ELSE UNCHANGED <<lineResolve, answers>>
    /\ UNCHANGED <<lineBuffer, received>>
    /\ UNCHANGED interpVars
    /\ UNCHANGED evalVars
    /\ UNCHANGED transformVars

\* inputReader(), called when no read is outstanding: a buffered line, '' once
\* closed, or a promise that waits for the next event
inputReader ==
    /\ lineResolve = NoResolve
    /\ Len(answers) < MaxReads
    /\ IF Len(lineBuffer) > 0
       THEN /\ answers' = Append(answers, shift(lineBuffer).value)
            /\ lineBuffer' = shift(lineBuffer).rest
            /\ UNCHANGED lineResolve
       ELSE IF rlClosed
       THEN /\ answers' = Append(answers, EmptyString)
            /\ UNCHANGED <<lineBuffer, lineResolve>>
       ELSE /\ lineResolve' = "resolve"
            /\ UNCHANGED <<lineBuffer, answers>>
    /\ UNCHANGED <<rlClosed, received>>
    /\ UNCHANGED interpVars
    /\ UNCHANGED evalVars
    /\ UNCHANGED transformVars

InitReader ==
    /\ InterpreterIdle
    /\ evalNode = Literal(Undefined)
    /\ evalFrame = [functionName |-> "main", variables |-> [v \in {} |-> Undefined],
                    declaredVariables |-> {}]
    /\ evalOutcome = [phase |-> "idle"]
    /\ TransformerIdle
    /\ ReaderIdle

NextReader ==
    \/ onLine
    \/ onClose
    \/ inputReader

SpecReader == InitReader /\ [][NextReader]_vars

\* standard input ends, and readline then emits close
FairReader == SpecReader /\ WF_vars(onClose)


(***************************************************************************)
(* Claims about the interpreter (specification Spec).                      *)
(***************************************************************************)
Returned == status = "returned"

\* the calls in progress that were not made in tail position
NonTailCalls ==
    Cardinality({k \in 1..Len(native) :
                    native[k].fn = "executeFunctionCall" /\ ~native[k].isLast})

\* a function invocation is executing: its frame has been pushed and not popped
InInvocation == Top.fn \in {"executeFunction", "executeBlock"}

\* C1: while an invocation executes, the call stack holds one frame more than
\* there are non-tail calls in progress; between the pop of a caller's frame
\* and the push of its tail-call target's, it holds exactly that many; and it
\* is empty when the run has returned normally.
C1_StackDepth ==
    /\ Running =>
          Len(callStack) = NonTailCalls + (IF InInvocation THEN 1 ELSE 0)
    /\ Returned => callStack = <<>>

\* the eighth invocation of the flow document, leaf(0), reached through tail
\* calls made inside two non-tail calls
C1_Witness ==
    /\ Running
    /\ scenario = "flow"
    /\ Top.fn = "executeBlock"
    /\ invCount = 8
    /\ NonTailCalls = 2
    /\ Len(callStack) = 3

\* C2: once a call in tail position inside a conditional body has been
\* executed, no later statement of the same invocation is executed, however
\* deep the conditional is nested.
C2_TailCallLeavesInvocation ==
    \A i \in 1..Len(log) :
        (log[i].type = "FunctionCallStatement" /\ log[i].isLast /\ log[i].depth >= 1)
            => \A j \in (i + 1)..Len(log) : log[j].inv # log[i].inv

\* outer of the flow document made its tail call three conditionals deep,
\* with siblings following at each depth, and the run went on to its end
C2_Witness ==
    /\ Returned
    /\ scenario = "flow"
    /\ \E i \in 1..Len(log) :
          /\ log[i].type = "FunctionCallStatement"
          /\ log[i].isLast
          /\ log[i].depth = 3
          /\ i + 4 < Len(log)

\* the statements the log holds strictly between positions i and j
Between(i, j) == {k \in 1..Len(log) : i < k /\ k < j}

\* the caller's next statement after the call logged at i, 0 if there is none
NextOfCaller(i) ==
    IF \E j \in (i + 1)..Len(log) : log[j].inv = log[i].inv
    THEN CHOOSE j \in (i + 1)..Len(log) :
            /\ log[j].inv = log[i].inv
            /\ \A k \in Between(i, j) : log[k].inv # log[i].inv
    ELSE 0

\* C3: between a call that is not in tail position and its caller's next
\* statement lie only statements of later invocations (the callee and the
\* tail calls it chains into), none of which executes a statement afterwards;
\* so their prints come first, and the caller's next statement runs with the
\* caller's frame on top again.
C3_NonTailCallCompletesFirst ==
    \A i \in 1..Len(log) :
        (log[i].type = "FunctionCallStatement" /\ ~log[i].isLast /\ NextOfCaller(i) # 0)
            => /\ \A k \in Between(i, NextOfCaller(i)) : log[k].inv > log[i].inv
               /\ \A k \in Between(i, NextOfCaller(i)) :
                     \A m \in NextOfCaller(i)..Len(log) : log[m].inv # log[k].inv
               /\ \A k \in Between(i, NextOfCaller(i)) :
                     log[k].at <= log[NextOfCaller(i)].at
               /\ log[NextOfCaller(i)].frames = log[i].frames
               /\ log[NextOfCaller(i)].function = log[i].function

\* main of the flow document called outer out of tail position; outer and the
\* chain it tail-called printed four values before main printed its last
C3_Witness ==
    /\ Returned
    /\ scenario = "flow"
    /\ Len(output) = 6
    /\ \E i \in 1..Len(log) :
          /\ log[i].line = 9
          /\ ~log[i].isLast
          /\ NextOfCaller(i) > i + 8
          /\ log[NextOfCaller(i)].at = 5

\* the last value main of kitchen-sink.md prints
Bye == Str(<<"B", "y", "e", " ", "A", "l", "!">>)

\* C4: when a call that was not in tail position has returned, the break
\* flag is clear, and main of kitchen-sink.md, whose non-tail call to
\* classify executed a break, goes on to its last statement.
C4_BreakEndsOnlyItsInvocation ==
    /\ (Running /\ Top.fn = "executeFunctionCall" /\ result = NoResult) => ~breakFlag
    /\ (Returned /\ scenario = "kitchen-sink" /\ call.entryPoint = "main")
          => (output # <<>> /\ output[Len(output)] = Bye)

\* the argument main of the nested-conditionals document passes to classify
Classified == program.functions["main"].body[1].arguments[1].value.n

\* the one alternative of classify whose conditions, in document order, are
\* the first to hold for n
Alternative(n) ==
    IF n > 0
    THEN (IF n > 100 THEN BigPositive
          ELSE IF n > 5 THEN (IF n > 8 THEN MediumHigh ELSE MediumLow)
          ELSE SmallPositive)
    ELSE IF n = 0 THEN Zero
    ELSE Negative

\* C5: of sibling conditionals that each end with a break, and the statements
\* after them, one alternative runs: classify prints the one label of the
\* first alternative whose conditions hold, at each depth of nesting, and no
\* invocation executes a statement after a break.
C5_OneAlternative ==
    /\ (Returned /\ scenario = "nested-conditionals")
          => output = <<Str(Alternative(Classified))>>
    /\ \A i \in 1..Len(log) :
          log[i].type = "BreakStatement"
             => \A j \in (i + 1)..Len(log) : log[j].inv # log[i].inv

\* classify(7) fell through the conditional at depth 3 to the break of depth 2
C5_Witness ==
    /\ Returned
    /\ scenario = "nested-conditionals"
    /\ Classified = 7
    /\ output = <<Str(MediumLow)>>
    /\ log[Len(log)].type = "BreakStatement"
    /\ log[Len(log)].depth = 2

\* an assignment is about to execute whose variable the current frame has
\* not declared
AssigningUndeclared ==
    /\ At("AssignmentStatement")
    /\ Current.variable \notin callStack[Len(callStack)].declaredVariables

Fifteen == <<Integer(15)>>
Ten == <<Integer(10)>>

\* the body of main in the declarations document being run
DeclarationsBody == program.functions["main"].body

EvalDone == evalOutcome.phase = "done"

IsValueOperand(e) == e.type \in {"Literal", "Identifier"}

\* the value a Literal or Identifier operand stands for in evalFrame
OperandValue(e) ==
    IF e.type = "Literal" THEN e.value
    ELSE IF e.name \in DOMAIN evalFrame.variables THEN evalFrame.variables[e.name]
    ELSE Undefined

BinaryOnValues(ops) ==
    /\ EvalDone
    /\ evalNode.type = "BinaryExpression"
    /\ evalNode.operator \in ops
    /\ IsValueOperand(evalNode.left)
    /\ IsValueOperand(evalNode.right)

\* the textual form of each operand value, written out
C8Text(v) ==
    CASE v.t = "string" -> v.s
      [] v = Integer(0) -> <<"0">>
      [] v = Integer(5) -> <<"5">>
      [] v = Integer(-3) -> <<"-", "3">>
      [] v = Num(1, 2) -> <<"0", ".", "5">>
      [] v = Bool(TRUE) -> <<"t", "r", "u", "e">>
      [] v = Bool(FALSE) -> <<"f", "a", "l", "s", "e">>
      [] v = Undefined -> <<>>
      [] v = Null -> <<>>

\* C8: a + b is the concatenation of the operands' textual forms (no value
\* rendered as the empty string) whenever at least one operand is a string,
\* also when both are numeral strings; a numeric result arises only when
\* neither operand is a string, and two numbers yield their sum.
C8_PlusConcatenatesStrings ==
    BinaryOnValues({"+"}) =>
        LET a == OperandValue(evalNode.left)
            b == OperandValue(evalNode.right)
        IN /\ (a.t = "string" \/ b.t = "string") =>
                  /\ evalOutcome.ok
                  /\ evalOutcome.val = Str(C8Text(a) \o C8Text(b))
           /\ (evalOutcome.ok /\ evalOutcome.val.t = "number") =>
                  (a.t # "string" /\ b.t # "string")
           /\ (a.t = "number" /\ b.t = "number") =>
                  /\ evalOutcome.ok
                  /\ evalOutcome.val.t = "number"
                  /\ evalOutcome.val.d > 0
                  /\ evalOutcome.val.n * (a.d * b.d)
                       = (a.n * b.d + b.n * a.d) * evalOutcome.val.d

\* two numeral strings were added with + and the result is their concatenation
C8_Witness ==
    /\ BinaryOnValues({"+"})
    /\ evalNode.left = Literal(Str(<<"5">>))
    /\ evalNode.right = Literal(Str(<<"-", "3">>))
    /\ evalOutcome.ok
    /\ evalOutcome.val = Str(<<"5", "-", "3">>)

C9Operators == {"-", "*", "/", "%", "<", ">", "<=", ">="}

\* the operand strings that contain a valid numeral
C9Numerals == {<<"5">>, <<"-", "3">>, <<" ", "7">>, <<"1", ".", "5">>}

C9Accepts(v) == v.t = "number" \/ (v.t = "string" /\ v.s \in C9Numerals)

\* C9: for - * / % < > <= >= evaluation succeeds exactly when each operand is
\* a number or a string containing a valid numeral; any other operand raises
\* a TypeError whose message names the operator and the offending side.
C9_NumericOperatorsAsClaimed ==
    BinaryOnValues(C9Operators) =>
        LET a == OperandValue(evalNode.left)
            b == OperandValue(evalNode.right)
        IN /\ evalOutcome.ok <=> (C9Accepts(a) /\ C9Accepts(b))
           /\ ~evalOutcome.ok =>
                  /\ evalOutcome.err.name = "RuntimeTypeError"
                  /\ evalOutcome.err.message =
                        "Expected number for "
                        \o (IF ~C9Accepts(a) THEN "left" ELSE "right")
                        \o " operand of " \o evalNode.operator

\* C10: a && b and a || b short-circuit: with a falsy left operand of && (a
\* truthy left operand of ||) the right operand is not evaluated, so no error
\* of the right operand is raised, and the result is the left operand's value.
C10_ShortCircuitAsClaimed ==
    ( /\ EvalDone
      /\ evalNode.type = "BinaryExpression"
      /\ evalNode.operator \in {"&&", "||"}
      /\ IsValueOperand(evalNode.left)
      /\ (evalNode.operator = "&&") = ~ToBoolean(OperandValue(evalNode.left)) )
    => /\ evalOutcome.ok
       /\ evalOutcome.val = OperandValue(evalNode.left)

(***************************************************************************)
(* Claims about errors, the module cache and input, checked under Spec.    *)
(***************************************************************************)
\* the statement types that evaluate an expression
Evaluating ==
    {"ConditionalBlock", "FunctionCallStatement", "VariableDeclaration",
     "PrintStatement", "AssignmentStatement"}

\* C11: every type error raised while a statement executes carries the source
\* line of that statement: the heading's line for a condition, the call's line
\* for an argument, the list item's line for a declaration, the paragraph's
\* line for a print or an assignment.
C11_TypeErrorCarriesLine ==
    [][status = "running" /\ status' = "threw" /\ error'.name = "RuntimeTypeError"
       => /\ AtStatement
          /\ Current.type \in Evaluating
          /\ error'.line = Current.line
          /\ error'.line > 0]_vars

\* each of the five statement types has raised a type error on line 7 of its
\* document; this is the conditional's
C11_Witness ==
    /\ scenario = "type-errors"
    /\ status = "threw"
    /\ error.name = "RuntimeTypeError"
    /\ error.line = 7
    /\ log[Len(log)].type = "ConditionalBlock"
    /\ log[Len(log)].line = 7

\* how often a document has been read or fetched since the cache was last reset
LoadCount(identity) ==
    Cardinality({i \in 1..Len(loads) :
                    /\ loads[i].identity = identity
                    /\ \A j \in i..Len(loads) : loads[j].kind # "reset"})

\* the documents there are to load
Documents == DOMAIN Files \cup DOMAIN Remote

LocationOf(key) == IF key = EntryKey THEN call.baseDir ELSE dirname(key)

\* the identity a reference made in the document at location stands for
ReferenceFrom(location, filePath) ==
    IF isRemoteReference(filePath, location) THEN resolveURL(location, filePath)
    ELSE resolve(location, filePath)

\* an external call is made and goes through to its target
ExternalCallMade ==
    /\ At("FunctionCallStatement")
    /\ Current.externalFile # NoPath
    /\ result' # NoResult
    /\ status' = "running"
    /\ log' # log

\* C13: a relative external reference is resolved against the location of the
\* document that contains the call: the call's base directory for the entry
\* document, a loaded document's own directory, a fetched document's own URL;
\* inside another document it is never the entry document's location.
C13_ResolvedAgainstCallingDocument ==
    [][ExternalCallMade
       => /\ result'.program = ReferenceFrom(LocationOf(Top.program),
                                             Current.externalFile)
          /\ programOf(Top.program)._baseDir = LocationOf(Top.program)]_vars

\* nested/main.md, loaded from /examples, has called util.md: the util.md next
\* to it has printed 6, and then the entry document's own util.md printed -4
C13_Witness ==
    /\ scenario = "nested-import"
    /\ status = "returned"
    /\ output = <<Integer(6), Str(<<"b", "e", "t", "w", "e", "e", "n">>), Integer(-4)>>
    /\ {<<"/", "examples", "nested", "util.md">>, <<"/", "examples", "util.md">>}
          \subseteq DOMAIN externalProgramCache

\* the synchronous interpreter is about to execute a call with a URL reference
SyncAtRemoteCall ==
    /\ call.mode = "sync"
    /\ At("FunctionCallStatement")
    /\ Current.externalFile # NoPath
    /\ Head(Current.externalFile) = "https:/"

CallTargetKnown ==
    \/ Current.externalFile = NoPath
    \/ ReferenceFrom(LocationOf(Top.program), Current.externalFile) \in Documents

CallTarget ==
    IF Current.externalFile = NoPath THEN programOf(Top.program)
    ELSE IF ReferenceFrom(LocationOf(Top.program), Current.externalFile) \in DOMAIN Files
    THEN Files[ReferenceFrom(LocationOf(Top.program), Current.externalFile)]
    ELSE Remote[ReferenceFrom(LocationOf(Top.program), Current.externalFile)]

\* a call is about to be executed whose target Program lacks the function
CallingMissingFunction ==
    /\ At("FunctionCallStatement")
    /\ ~remoteUnresolved(Current, programOf(Top.program))
    /\ CallTargetKnown
    /\ Current.functionName \notin DOMAIN CallTarget.functions

\* what the error of a missing function says
NotFoundMessage ==
    "Function '" \o Current.functionName \o "' not found"
    \o (IF Current.externalFile = NoPath THEN ""
        ELSE " in '" \o pathText(Current.externalFile) \o "'")

\* C15: a call whose function name is absent from the resolved target Program
\* raises a function-not-found error at the call, naming the reference when
\* the call is external, in tail position as elsewhere, before an argument is
\* evaluated and before a frame is pushed for the callee.
C15_MissingFunctionRaisesAtCall ==
    [][CallingMissingFunction
       => /\ status' = "threw"
          /\ error'.name = "Error"
          /\ error'.message = NotFoundMessage
          /\ callStack' = callStack
          /\ output' = output
          /\ invCount' = invCount]_vars

\* ["bad" - 1](lib.md#nonexistent), the last statement of main, has thrown the
\* error of the missing function and not the type error of its argument
C15_Witness ==
    /\ scenario = "missing"
    /\ status = "threw"
    /\ error.message = "Function 'nonexistent' not found in 'lib.md'"
    /\ log[Len(log)].isLast
    /\ log[Len(log)].type = "FunctionCallStatement"
    /\ Len(callStack) = 1
    /\ output = <<Str(<<"h", "i">>)>>

\* interpret or interpretAsync is called with an entry function the Program
\* does not have
CalledWithoutEntry ==
    /\ status = "idle"
    /\ status' # "idle"
    /\ call.entryPoint \notin DOMAIN program.functions

\* C16: interpret and interpretAsync, called with an entry function name the
\* Program lacks, raise before a frame is pushed, a statement is executed or
\* a value is printed.
C16_MissingEntryRaisesFirst ==
    [][CalledWithoutEntry
       => /\ status' = "threw"
          /\ error' = Error("Entry function '" \o call.entryPoint \o "' not found")
          /\ callStack' = <<>>
          /\ native' = <<>>
          /\ log' = <<>>
          /\ invCount' = 0
          /\ output' = <<>>
          /\ printed' = <<>>
          /\ reads' = <<>>
          /\ loads' = loads]_vars

\* interpretAsync was called on the kitchen sink for cube, which it does not
\* define, with an input reader and a print handler
C16_Witness ==
    /\ scenario = "kitchen-sink"
    /\ call.mode = "async"
    /\ call.printHandler
    /\ call.entryPoint = "cube"
    /\ status = "threw"
    /\ error.message = "Entry function 'cube' not found"
    /\ callStack = <<>>
    /\ log = <<>>
    /\ output = <<>>

\* an entry of the module cache is gone or is no longer what it was
CacheEntryLost ==
    \E k \in DOMAIN externalProgramCache :
        \/ k \notin DOMAIN externalProgramCache'
        \/ externalProgramCache'[k] # externalProgramCache[k]

\* a call is about to be executed into a local document that is not cached
CallingUncachedFile ==
    /\ At("FunctionCallStatement")
    /\ Current.externalFile # NoPath
    /\ ~isRemoteReference(Current.externalFile, LocationOf(Top.program))
    /\ resolve(LocationOf(Top.program), Current.externalFile)
          \notin DOMAIN externalProgramCache

\* C17: no interpretation evicts or replaces an entry of the module cache;
\* only the reset of the cache removes entries, and it leaves the cache empty,
\* so that the next call into any external document loads and parses it again.
C17_CacheKeptUntilReset ==
    [][/\ CacheEntryLost
          => /\ clearExternalProgramCache
             /\ status # "running"
             /\ DOMAIN externalProgramCache' = {}
       /\ CallingUncachedFile
          => loads' = Append(loads,
                             [identity |-> resolve(LocationOf(Top.program),
                                                   Current.externalFile),
                              kind |-> "read"])]_vars

\* lib.md was read in one run, the cache was reset, and a call in the next run
\* has read lib.md again
C17_Witness ==
    /\ runs = 2
    /\ status = "returned"
    /\ loads = <<[identity |-> LibPath, kind |-> "read"],
                 [identity |-> NoPath, kind |-> "reset"],
                 [identity |-> LibPath, kind |-> "read"]>>
    /\ DOMAIN externalProgramCache = {LibPath}

\* C18: when a fatal error ends a run part-way, every value printed before it
\* is in the output and has been given to the print sink, and stays there;
\* nothing is printed after it; and the call raises, it does not return.
C18_OutputSurvivesError ==
    /\ [](call.printHandler /\ status # "idle" => printed = output)
    /\ [][/\ status = "running" /\ status' = "threw"
             => output' = output /\ printed' = printed /\ native' = <<>>
          /\ status = "threw" /\ status' = "threw"
             => output' = output /\ printed' = printed /\ error' = error
          /\ status = "threw" => status' \in {"threw", "idle"}]_vars

\* interpretAsync has printed ok, handed it to the print handler and then
\* raised the type error of the next print
C18_Witness ==
    /\ scenario = "type-errors"
    /\ call.mode = "async"
    /\ call.printHandler
    /\ status = "threw"
    /\ error.name = "RuntimeTypeError"
    /\ output = <<Str(<<"o", "k">>)>>
    /\ printed = <<Str(<<"o", "k">>)>>
    /\ native = <<>>

\* how many InputStatements the run has executed so far
InputsExecuted == Cardinality({i \in 1..Len(log) : log[i].type = "InputStatement"})

\* the value the k-th InputStatement of a synchronous run is to bind
SuppliedInput(k) == IF k <= Len(call.inputs) THEN call.inputs[k] ELSE Null

\* C19: in synchronous mode the k-th InputStatement executed, in whichever
\* invocation, binds the k-th pre-supplied input; once the inputs are used up
\* every further InputStatement binds null; no input is consumed twice.
C19_InputsInOrder ==
    /\ [](call.mode = "sync" /\ status = "running"
          => inputIndex = IF InputsExecuted <= Len(call.inputs)
                          THEN InputsExecuted ELSE Len(call.inputs))
    /\ [][call.mode = "sync" /\ At("InputStatement")
          => /\ Len(callStack') = Len(callStack)
             /\ callStack'[Len(callStack)].variables[Current.variable]
                   = SuppliedInput(InputsExecuted + 1)]_vars

\* of four inputs the first went to main's a, the second to reader's b, which
\* reader printed, and the third to main's c, which main printed
C19_Witness ==
    /\ scenario = "inputs"
    /\ call.mode = "sync"
    /\ Len(call.inputs) = 4
    /\ status = "returned"
    /\ inputIndex = 3
    /\ output = <<Integer(12), Integer(13)>>

\* the input reader has been asked and has not answered yet
ReaderPending == reads # <<>> /\ ~reads[Len(reads)].resolved

\* C20: in asynchronous mode with an input provider, each InputStatement
\* executed asks the provider exactly once; no later statement executes until
\* the provider has resolved; the value it resolves to is bound to the
\* statement's variable; and every value printed before has been delivered to
\* the print sink when the provider is asked.
C20_ProviderAskedOncePerInput ==
    /\ [](call.mode = "async" /\ call.inputReader => Len(reads) = InputsExecuted)
    /\ [](ReaderPending
          => /\ status = "running"
             /\ log[Len(log)].type = "InputStatement"
             /\ log[Len(log)].line = reads[Len(reads)].line)
    /\ [](\A i \in 1..Len(reads) :
             call.printHandler => reads[i].printed = reads[i].output)
    /\ [][ReaderPending
          => /\ log' = log
             /\ output' = output
             /\ Len(reads') = Len(reads)
             /\ reads'[Len(reads)].resolved
             /\ Len(callStack') = Len(callStack)
             /\ callStack'[Len(callStack)].variables[Current.variable]
                   = reads'[Len(reads)].value]_vars

\* the reader was asked three times, by main, by reader and by main again,
\* each time after all output so far had reached the print handler; the two
\* values printed are the second and third it resolved to
C20_Witness ==
    /\ scenario = "inputs"
    /\ call.mode = "async"
    /\ call.inputReader
    /\ call.printHandler
    /\ status = "returned"
    /\ Len(reads) = 3
    /\ \A i \in 1..3 : reads[i].resolved
    /\ reads[3].printed = 1
    /\ output = <<reads[2].value, reads[3].value>>
    /\ printed = output

(***************************************************************************)
(* Claims about the two modes, fresh Runtimes, break, scope and            *)
(* assignment.                                                             *)
(***************************************************************************)
Finished == status \in {"returned", "threw"}

PrintsExecuted ==
    Cardinality({i \in 1..Len(log) : log[i].type = "PrintStatement"})

\* C22: every top-level interpret or interpretAsync call starts with an empty
\* call stack, an empty output, a cleared break flag and the input cursor at
\* the start, whatever the calls before it did, a break or an error included;
\* the output it returns holds only the values printed during that call.
C22_FreshRuntimePerCall ==
    /\ [][status = "idle" /\ status' # "idle"
          => /\ callStack' = <<>>
             /\ output' = <<>>
             /\ ~breakFlag'
             /\ inputIndex' = 0
             /\ inputBuffer' = (IF call.mode = "sync" THEN call.inputs ELSE <<>>)]_vars
    /\ [](status = "returned" => Len(output) = PrintsExecuted)

\* the call before this one executed a break and left the flag set; this
\* call has printed with the flag clear and returned what it printed itself
C22_Witness ==
    /\ previous.status = "returned"
    /\ previous.breakFlag
    /\ ~previous.repeated
    /\ status = "returned"
    /\ ~breakFlag
    /\ output # <<>>
    /\ Len(output) = PrintsExecuted

\* the entry document makes a call by a relative reference and it goes through
EntryCallsExternal ==
    /\ ExternalCallMade
    /\ Top.program = EntryKey

\* C23: the module cache is the only mutable state two top-level
\* interpretations share: run one after the other or interleaved at their
\* suspension points, also on one Program object with different base
\* directories, neither touches the other's frames, output or break flag, and
\* each resolves the entry document's relative references against the baseDir
\* it was called with.
C23_InterpretationsIsolated ==
    [][/\ parked' # parked => switchTask
       /\ EntryCallsExternal
          => result'.program = resolve(call.baseDir, Current.externalFile)]_vars

\* what the fizzbuzz document is to print for i
FizzbuzzOf(i) ==
    IF i % 15 = 0 THEN Str(Fizz \o Buzz)
    ELSE IF i % 3 = 0 THEN Str(Fizz)
    ELSE IF i % 5 = 0 THEN Str(Buzz)
    ELSE Integer(i)

InternalCallInLoaded ==
    /\ At("FunctionCallStatement")
    /\ Current.externalFile = NoPath
    /\ Top.program # EntryKey
    /\ result' # NoResult
    /\ status' = "running"
    /\ log' # log

\* C26: while a function of a loaded document executes, reached by an eager or
\* by a tail call, a call without a reference is looked up in that document's
\* functions; the entry document's function of the same name is never run in
\* its place.
C26_InternalCallStaysInDocument ==
    /\ [][InternalCallInLoaded
          => /\ result'.program = Top.program
             /\ result'.func \in DOMAIN externalProgramCache[Top.program].functions]_vars
    /\ [](scenario = "shadow"
          => \A k \in DOMAIN log : log[k].function = "show"
                                   => log[k].program = HelpersPath)

\* run of helpers.md was reached by a tail call, made its own call of show as
\* a tail call, and the show that printed was the one of helpers.md
C26_Witness ==
    /\ scenario = "shadow"
    /\ status = "returned"
    /\ output = <<Str(<<"l", "i", "b">>)>>
    /\ Len(log) = 3
    /\ log[1].isLast /\ log[1].program = EntryKey
    /\ log[2].type = "FunctionCallStatement" /\ log[2].isLast
    /\ log[2].program = HelpersPath
    /\ log[3].function = "show" /\ log[3].program = HelpersPath
    /\ "show" \in DOMAIN program.functions

\* what the scope document prints for its arguments
ScopeOutput(a, b) ==
    IF ~a.b THEN <<Integer(0), Undefined>>
    ELSE IF b.b THEN <<Integer(3), Integer(2), Integer(4)>>
    ELSE <<Integer(1), Integer(1), Integer(2)>>

CurrentParameters ==
    LET func == programOf(Top.program).functions[currentFrame(runtime).functionName]
    IN {func.parameters[i] : i \in 1..Len(func.parameters)}

AssigningValue ==
    /\ At("AssignmentStatement")
    /\ ~undeclaredAssignment(callStack, Current)
    /\ evaluate(Current.value, runtime, Current.line).ok

NewValue == evaluate(Current.value, runtime, Current.line).val

\* the assignment has stored the value in the current frame and gone on
Stored(value) ==
    /\ status' = "running"
    /\ Len(callStack') = Len(callStack)
    /\ Current.variable \in DOMAIN callStack'[Len(callStack')].variables
    /\ callStack'[Len(callStack')].variables[Current.variable] = value

\* the outcome of the operator's rule is stored, or its error thrown
Applied(outcome) ==
    IF outcome.ok THEN Stored(outcome.val)
    ELSE status' = "threw" /\ error' = outcome.err

ConditionHeadingMet ==
    /\ position' = position + 1
    /\ mdastNode'.type = "heading"
    /\ mdastNode'.depth \in HeadingDepths
    /\ mdastNode'.emphasis # "null"
    /\ currentFunction # NoFunction
    /\ Len(blockStack) >= mdastNode'.depth - 1

\* C30: a heading of depth d from 2 to 6 with emphasized condition text, met
\* while the block stack has at least d - 1 levels, truncates the stack to
\* d - 1 levels, appends a new ConditionalBlock with an empty body to the
\* block then on top and pushes that body: the stack has exactly d levels
\* afterwards, the first d - 1 of them as before.
C30_HeadingOpensConditional ==
    [][ConditionHeadingMet
       => \E d \in {mdastNode'.depth} :
          \E parent \in {blockStack[d - 1]} :
          \E before \in {blockAt(functions[currentFunction].body, parent)} :
             /\ Len(blockStack') = d
             /\ SubSeq(blockStack', 1, d - 1) = SubSeq(blockStack, 1, d - 1)
             /\ blockStack'[d] = parent \o <<Len(before) + 1>>
             /\ blockAt(functions'[currentFunction].body, parent)
                   = Append(before, ConditionalBlock(Identifier(mdastNode'.emphasis),
                                                     <<>>, mdastNode'.line))
             /\ blockAt(functions'[currentFunction].body, blockStack'[d]) = <<>>
             /\ currentFunction' = currentFunction]_vars

\* as in the test document: #### under ### under ##, then a ### heading, which
\* closes two scopes and opens the second conditional of the ## body
C30_Witness ==
    /\ mdastNode.type = "heading"
    /\ mdastNode.depth = 3
    /\ mdastNode.emphasis = "c"
    /\ position = 5
    /\ blockStack = <<NoPath, <<1>>, <<1, 2>>>>
    /\ Len(functions["main"].body[1].body) = 2
    /\ functions["main"].body[1].body[1].type = "ConditionalBlock"
    /\ Len(functions["main"].body[1].body[1].body) = 1
    /\ functions["main"].body[1].body[1].body[1].type = "ConditionalBlock"

\* the step handles a heading that skips a depth: inside a function, with
\* fewer levels open than its parent scope needs
SkippingHeadingMet ==
    /\ position' = position + 1
    /\ mdastNode'.type = "heading"
    /\ mdastNode'.depth \in HeadingDepths
    /\ currentFunction # NoFunction
    /\ Len(blockStack) < mdastNode'.depth - 1

\* the step handles a paragraph, a blockquote or an unordered list that yields
\* a statement
StatementMet ==
    /\ position' = position + 1
    /\ \/ mdastNode'.type = "paragraph" /\ mdastNode'.parsed # "null"
       \/ mdastNode'.type = "blockquote" /\ mdastNode'.text # ""
       \/ mdastNode'.type = "list" /\ ~mdastNode'.ordered
    /\ currentFunction # NoFunction

\* C31: a heading that skips a depth is dropped: no ConditionalBlock is made
\* and the block stack stays as it is, so that the statements that follow are
\* appended to the block that was open before the heading.
C31_SkippedDepthDropped ==
    /\ [][SkippingHeadingMet
          => UNCHANGED <<functions, currentFunction, blockStack>>]_vars
    /\ [][StatementMet
          => \E open \in {blockStack[Len(blockStack)]} :
                /\ Len(blockAt(functions'[currentFunction].body, open))
                      = Len(blockAt(functions[currentFunction].body, open)) + 1
                /\ SubSeq(blockAt(functions'[currentFunction].body, open), 1,
                          Len(blockAt(functions[currentFunction].body, open)))
                      = blockAt(functions[currentFunction].body, open)
                /\ blockStack' = blockStack]_vars

\* a ### heading with condition text directly under the function heading
C31_Witness ==
    /\ mdastNode.type = "heading"
    /\ mdastNode.depth = 3
    /\ mdastNode.emphasis = "c"
    /\ mdastNode.line = 2
    /\ currentFunction = "main"
    /\ blockStack = <<NoPath>>
    /\ functions["main"].body = <<>>

\* the step handles a thematic break inside a function
BreakMet ==
    /\ position' = position + 1
    /\ mdastNode'.type = "thematicBreak"
    /\ currentFunction # NoFunction

\* C32: a thematic break inside a function appends exactly one BreakStatement
\* to the innermost open block and then closes exactly one level when more
\* than one is open, never the function body, so that what follows is
\* appended to the parent of the block just closed.
C32_BreakClosesOneLevel ==
    [][BreakMet
       => \E open \in {blockStack[Len(blockStack)]} :
             /\ blockAt(functions'[currentFunction].body, open)
                   = Append(blockAt(functions[currentFunction].body, open),
                            BreakStatement(mdastNode'.line))
             /\ \A name \in DOMAIN functions :
                   /\ functions'[name].parameters = functions[name].parameters
                   /\ \A level \in 1..(Len(blockStack) - 1) :
                         Len(blockAt(functions'[currentFunction].body,
                                     blockStack[level]))
                            = Len(blockAt(functions[currentFunction].body,
                                          blockStack[level]))
             /\ Len(blockStack') >= 1
             /\ blockStack' = IF Len(blockStack) > 1
                              THEN SubSeq(blockStack, 1, Len(blockStack) - 1)
                              ELSE blockStack
             /\ currentFunction' = currentFunction]_vars

\* a break met with three levels open has left two: the body of the outer
\* conditional is open again, not the function body
C32_Witness ==
    /\ mdastNode.type = "thematicBreak"
    /\ currentFunction = "main"
    /\ Len(blockStack) = 2
    /\ blockStack[2] # NoPath
    /\ \E outer \in {blockAt(functions["main"].body, blockStack[2])} :
          /\ Len(outer) >= 1
          /\ outer[Len(outer)].type = "ConditionalBlock"
          /\ \E inner \in {outer[Len(outer)].body} :
                /\ Len(inner) >= 1
                /\ inner[Len(inner)] = BreakStatement(mdastNode.line)

\* the step handles an ordered list
OrderedListMet ==
    /\ position' = position + 1
    /\ mdastNode'.type = "list"
    /\ mdastNode'.ordered

\* the function has a conditional directly in its body
hasConditional(name) ==
    \E at \in DOMAIN functions[name].body :
       functions[name].body[at].type = "ConditionalBlock"

\* C33 as stated: an ordered list declares parameters only directly inside the
\* function body before any conditional of that function.
C33_ParametersBeforeConditionals ==
    [][OrderedListMet /\ functions' # functions
       => /\ currentFunction # NoFunction
          /\ Len(blockStack) = 1
          /\ ~hasConditional(currentFunction)]_vars

\* C33, amended: an ordered list declares parameters exactly when one level is
\* open, the function body, whether or not a conditional of the function was
\* opened and closed before it; the items' texts are appended in document
\* order, and an ordered list met with a conditional body open, or with no
\* function, adds neither parameters nor statements.
C33_ParametersAtFunctionLevel ==
    [][OrderedListMet
       => /\ IF currentFunction # NoFunction /\ Len(blockStack) = 1
             THEN functions' = [functions EXCEPT ![currentFunction].parameters =
                                                     @ \o mdastNode'.items]
             ELSE functions' = functions
          /\ blockStack' = blockStack
          /\ currentFunction' = currentFunction]_vars

\* an ordered list of two items met after a conditional of the function was
\* opened and closed has declared both, in order
C33_Witness ==
    /\ mdastNode.type = "list"
    /\ mdastNode.ordered
    /\ mdastNode.items = <<"n", "m">>
    /\ currentFunction = "main"
    /\ blockStack = <<NoPath>>
    /\ functions["main"].parameters = <<"n", "m">>
    /\ Len(functions["main"].body) = 1
    /\ functions["main"].body[1].type = "ConditionalBlock"

\* the step handles a paragraph whose sole child is a link, in an open block
LinkMet ==
    /\ position' = position + 1
    /\ mdastNode'.type = "paragraph"
    /\ mdastNode'.parsed = "FunctionCallStatement"
    /\ Len(blockStack) > 0

\* the place of the last "#" of a target that has one, counted from 1
lastHash(url) ==
    CHOOSE at \in DOMAIN url :
       url[at] = "#" /\ \A after \in (at + 1)..Len(url) : url[after] # "#"

\* the call the statement describes: a target that starts with "#" or has no
\* "#" is internal, any other is split at its last "#"
splitOnLastHash(url) ==
    IF url[1] = "#"
    THEN [functionName |-> SubSeq(url, 2, Len(url)), externalFile |-> Null]
    ELSE IF \E at \in DOMAIN url : url[at] = "#"
    THEN [functionName |-> SubSeq(url, lastHash(url) + 1, Len(url)),
          externalFile |-> Str(SubSeq(url, 1, lastHash(url) - 1))]
    ELSE [functionName |-> url, externalFile |-> Null]

\* C34: a link target file-or-url#name is split on its last "#", the external
\* reference being everything before it and the function name everything
\* after it; a target that starts with "#" or contains none yields an internal
\* call with no external reference.
C34_SplitOnLastHash ==
    [][LinkMet
       => \E block \in {blockAt(functions'[currentFunction].body,
                                blockStack[Len(blockStack)])} :
             /\ block[Len(block)].type = "FunctionCallStatement"
             /\ block[Len(block)].functionName
                   = splitOnLastHash(mdastNode'.url).functionName
             /\ block[Len(block)].externalFile
                   = splitOnLastHash(mdastNode'.url).externalFile]_vars

\* the part of the statement that holds: a target that starts with "#" or has
\* no "#" yields an internal call with no external reference
C34_InternalTargets ==
    [][LinkMet /\ (mdastNode'.url[1] = "#" \/ ~includesHash(mdastNode'.url))
       => \E block \in {blockAt(functions'[currentFunction].body,
                                blockStack[Len(blockStack)])} :
             /\ block[Len(block)].type = "FunctionCallStatement"
             /\ block[Len(block)].externalFile = Null
             /\ block[Len(block)].functionName
                   = splitOnLastHash(mdastNode'.url).functionName]_vars

\* the step handles a depth-1 heading
FunctionHeadingMet ==
    /\ position' = position + 1
    /\ mdastNode'.type = "heading"
    /\ mdastNode'.depth = 1

\* C35: a depth-1 heading makes the Program map its text to a new function
\* without parameters and statements, in place of any function an earlier
\* heading of the same text built, so that the name stands for the function of
\* the last such heading only; and it resets the block stack to exactly the
\* body of the new function.
C35_LastHeadingWins ==
    [][FunctionHeadingMet
       => /\ mdastNode'.text \in DOMAIN functions'
          /\ functions'[mdastNode'.text]
                = FunctionDeclaration(mdastNode'.text, <<>>, <<>>)
          /\ \A name \in DOMAIN functions' \ {mdastNode'.text} :
                name \in DOMAIN functions /\ functions'[name] = functions[name]
          /\ currentFunction' = mdastNode'.text
          /\ blockStack' = <<NoPath>>]_vars

\* a heading of the text main met as the fourth node has left the name bound
\* to a function without statements, and one level open
C35_Witness ==
    /\ mdastNode.type = "heading"
    /\ mdastNode.depth = 1
    /\ mdastNode.text = "main"
    /\ mdastNode.line = 4
    /\ functions["main"] = FunctionDeclaration("main", <<>>, <<>>)
    /\ blockStack = <<NoPath>>

\* C36: while a function is open the block stack has between 1 and 6 levels,
\* the lowest is the body of the current function, and each higher level is the
\* body of the ConditionalBlock that is the last statement of the level
\* directly below it; before the first depth-1 heading the stack is empty and
\* the Program has no function, every node having been dropped.
C36_BlockStackShape ==
    IF currentFunction = NoFunction
    THEN blockStack = <<>> /\ DOMAIN functions = {}
    ELSE /\ Len(blockStack) \in 1..6
         /\ currentFunction \in DOMAIN functions
         /\ blockStack[1] = NoPath
         /\ \A level \in 2..Len(blockStack) :
               \E below \in {blockAt(functions[currentFunction].body,
                                     blockStack[level - 1])} :
                  /\ Len(below) >= 1
                  /\ below[Len(below)].type = "ConditionalBlock"
                  /\ blockStack[level] = blockStack[level - 1] \o <<Len(below)>>

\* six levels are open: a conditional at each heading depth from 2 to 6
C36_Witness ==
    /\ currentFunction = "main"
    /\ Len(blockStack) = 6
    /\ mdastNode.type = "heading"
    /\ mdastNode.depth = 6

\* nodes were met before any depth-1 heading, and nothing came of them
C36_Dropped ==
    /\ currentFunction = NoFunction
    /\ position = MaxNodes
    /\ mdastNode.type = "paragraph"
    /\ mdastNode.parsed = "PrintStatement"

\* C37: frames are isolated.  A statement of the callee reads only the
\* callee's own parameters and variables, a name of the caller reading as no
\* value; and no step of a callee changes a frame below its own, so that when
\* a call that is not a tail call returns, the caller's frame holds exactly the
\* values it held before the call.
C37_FramesIsolated ==
    /\ [][status = "running" /\ status' = "running"
          => IF Len(callStack') > Len(callStack)
             THEN SubSeq(callStack', 1, Len(callStack)) = callStack
             ELSE /\ callStack' \in {callStack,
                                     SubSeq(callStack, 1, Len(callStack'))}
                     \/ /\ Len(callStack') = Len(callStack)
                        /\ SubSeq(callStack', 1, Len(callStack) - 1)
                              = SubSeq(callStack, 1, Len(callStack) - 1)]_vars
    /\ [](scenario = "frames" /\ status = "returned"
          => output = <<Undefined, Integer(5), Integer(8), call.args[1]>>)

\* main was called with x = 1: f has read x as no value, g has added to its
\* own x, and main has printed the x it was given
C37_Witness ==
    /\ scenario = "frames"
    /\ status = "returned"
    /\ output = <<Undefined, Integer(5), Integer(8), Integer(1)>>
    /\ \E k \in DOMAIN log : /\ log[k].type = "PrintStatement"
                             /\ log[k].line = 15
                             /\ log[k].function = "f"
                             /\ log[k].frames = 2

\* a compound assignment is about to run whose variable holds a string or a
\* number
CompoundOnHeld ==
    /\ At("AssignmentStatement")
    /\ Current.operator \in {"+", "-", "*", "/"}
    /\ ~undeclaredAssignment(callStack, Current)
    /\ getVariable(runtime, Current.variable).t \in {"string", "number"}

\* what the evaluator makes of x op e for the x and e of the statement
AsBinary ==
    evaluate(BinaryExpression(Current.operator, Identifier(Current.variable),
                              Current.value),
             runtime, Current.line)

\* C38: for a variable x that holds a string or a number and each op of
\* + - * /, x op= e stores the value that x = x op e would store, the value of
\* the expression x op e, and raises a type error exactly when evaluating
\* x op e raises one.
C38_CompoundAsBinary ==
    [][CompoundOnHeld
       => IF AsBinary.ok
          THEN Stored(AsBinary.val)
          ELSE /\ status' = "threw"
               /\ error'.name = AsBinary.err.name
               /\ error'.name = "RuntimeTypeError"]_vars

\* x held "a": x += 5 has stored "a5"
C38_Witness ==
    /\ scenario = "held"
    /\ status = "returned"
    /\ call.args = <<Integer(5), Str(<<"a">>)>>
    /\ output = <<Str(<<"a", "5">>), Integer(5)>>

\* x held "a": x -= 5 has raised a type error, as "a" - 5 does
C38_Raised ==
    /\ scenario = "held"
    /\ status = "threw"
    /\ call.args = <<Integer(5), Str(<<"a">>)>>
    /\ error.name = "RuntimeTypeError"
    /\ error.value = Str(<<"a">>)

(***************************************************************************)
(* Claims about the command line's input reader (specification FairReader).*)
(***************************************************************************)
\* the lines the reads have resolved with, in order, then those still buffered
Delivered == SelectSeq(answers, LAMBDA value : value # EmptyString) \o lineBuffer

\* C39: with at most one read outstanding, every line received from standard
\* input goes to exactly one inputReader call, in arrival order, whether it
\* arrived before the read or after it: the lines read and the lines still
\* buffered are the lines received, each once and in order, and no read waits
\* while a line is buffered.  After the close a pending read resolves with the
\* empty string, as does every read made once the buffer is drained, and no
\* read is pending; so, standard input ending, no read stays pending forever.
C39_ReaderDelivers ==
    /\ [](/\ Len(Delivered) = received
          /\ \A k \in 1..received : Delivered[k][1] = k)
    /\ [](lineResolve # NoResolve => lineBuffer = <<>> /\ ~rlClosed)
    /\ [](\A k \in DOMAIN answers :
             answers[k] = EmptyString
             => /\ rlClosed
                /\ lineBuffer = <<>>
                /\ \A later \in k..Len(answers) : answers[later] = EmptyString)
    /\ [][~rlClosed /\ rlClosed' /\ lineResolve # NoResolve
          => lineResolve' = NoResolve /\ answers' = Append(answers, EmptyString)]_vars
    /\ [][rlClosed /\ Len(answers') > Len(answers)
          => answers' = Append(answers,
                               IF lineBuffer = <<>> THEN EmptyString
                               ELSE Head(lineBuffer))]_vars
    /\ (lineResolve # NoResolve ~> lineResolve = NoResolve)

\* two lines were read in order, the read after them was pending at the close
\* and resolved with the empty string, and so did the read after the close
C39_Witness ==
    /\ rlClosed
    /\ received = 2
    /\ Len(answers) = 4
    /\ answers[1][1] = 1
    /\ answers[2][1] = 2
    /\ answers[3] = EmptyString
    /\ answers[4] = EmptyString
    /\ lineResolve = NoResolve

\* two lines arrived before any read: the first read has taken the first
C39_Buffered ==
    /\ Len(lineBuffer) = 1
    /\ lineBuffer[1][1] = 2
    /\ Len(answers) = 1
    /\ answers[1][1] = 1

=============================================================================
